---- MODULE Spec2Model ----
(***************************************************************************)
(* Model of the deepwell page service (src/src/page/service.rs) and of the *)
(* per-wiki revision store it drives (src/src/revisions/store.rs); of the  *)
(* password manager, the session facade, the users and the wiki catalog.   *)
(* The database tables pages, revisions and tag_history hold the COMMITTED *)
(* rows.  Every mutating page operation runs inside self.transaction(..):  *)
(* what it wrote so far is kept in the task's record and reaches the       *)
(* tables when the transaction commits, or is dropped when it rolls back.  *)
(* A revision store is a working directory (files) and a linear history of *)
(* commits, each a snapshot of the tracked blobs.  Two further sections    *)
(* model the store called directly, slug checks included, and the locks of *)
(* the facade: the catalog's lock, the store map's lock and each store's.  *)
(***************************************************************************)
EXTENDS Integers, Sequences, FiniteSets, TLC

VARIABLES
    pages,        \* page_id -> row of the pages table
    revisions,    \* revisions table: revision_id is the index
    tag_history,  \* revision_id -> row of the tag_history table
    stores,       \* PageService.stores: wiki_id -> RevisionStore
    task,         \* per task: the page operation in flight
    last,         \* the call that returned Ok last
    rt,           \* observer of create / remove / restore round trips
    passwords,    \* the rows of the passwords table
    sessions,     \* user_id -> row of the sessions table
    call,         \* per task: the session call in flight
    ret,          \* the session call that returned last, with its result
    users,        \* user_id -> row of the users table
    pwcall,       \* per task: the password manager call in flight
    pwret,        \* the password manager call that returned last
    wikis,        \* wiki_id -> row of the wikis table
    wikimap,      \* WikiService.wikis: the in-memory map wiki_id -> Wiki
    wret,         \* the wiki catalog call that returned last
    maplock,      \* the lock of PageService.stores
    storelock,    \* wiki_id -> RevisionStore.lock
    catlock,      \* the lock of WikiService.wikis
    proc,         \* per task: the facade or store call in flight
    sret          \* the revision store call that returned last

pagevars == <<pages, revisions, tag_history, stores, task, last, rt>>

authvars == <<passwords, sessions, call, ret>>

adminvars == <<users, pwcall, pwret, wikis, wikimap, wret>>

lockvars == <<maplock, storelock, catlock, proc, sret>>

vars == <<pagevars, authvars, adminvars, lockvars>>

\* ---------------------------------------------------------------- bounds
MaxRevs == 3         \* rows of the revisions table (general specification)
MaxCommits == 4      \* commits per store, the initial one included
SeqRevs == 3         \* rows of the revisions table (sequential specification)
SeqCommits == 4      \* commits per store (sequential specification)
TripRevs == 7        \* rows of the revisions table (round-trip specification)
MaxWikis == 3        \* rows of the wikis table
StoreCommits == 3    \* commits of a store called directly, the initial one included
EditRevs == 3        \* rows of the revisions table (editing specification)

Tasks == {1, 2}
Wikis == {1, 2}
Slugs == {"a", "b"}
Contents == {"x", "y"}
NoContent == "none"                 \* Option::None of a content / a blob
TagInputs == {<< >>, <<2, 1>>}      \* tag lists a caller passes (tags are numbered
                                    \* in the order of their strings)
NoPage == 0
NoHash == <<0, 0>>

Max(S) == CHOOSE x \in S : \A y \in S : y <= x

\* ------------------------------------------------------- revision store
EmptyTree == [s \in Slugs |-> NoContent]

\* RevisionStore::new followed by initial_commit: an empty commit on an
\* empty repository.
initial_commit == [files |-> EmptyTree, commits |-> <<EmptyTree>>]

\* A GitHash names a commit of one repository.
HeadHash(w, st) == <<w, Len(st.commits)>>

read_file(st, slug) == st.files[slug]

\* write_file that leaves the working directory as it was.
WriteFileNoWrite(st, slug, content) == st

write_file(st, slug, content) == [st EXCEPT !.files[slug] = content]

remove_file(st, slug) == [st EXCEPT !.files[slug] = NoContent]

\* "git commit -- paths": the blobs at the paths, as they are in the working
\* directory, become part of a new commit on top of the history.
git_commit(st, paths) ==
    LET head == st.commits[Len(st.commits)]
        tree == [s \in DOMAIN st.files |->
                    IF s \in paths THEN st.files[s] ELSE head[s]]
    IN  [st EXCEPT !.commits = Append(@, tree)]

\* RevisionStore::commit.  The page service passes Option<&[u8]>: without
\* content nothing is written and the commit is empty.
StoreCommit(st, slug, content) ==
    IF content = NoContent
        THEN [st EXCEPT !.commits = Append(@, st.commits[Len(st.commits)])]
        ELSE git_commit(write_file(st, slug, content), {slug})

\* RevisionStore::remove: Ok(None), and no commit, when the file is absent.
StoreRemoveFound(st, slug) == read_file(st, slug) # NoContent
StoreRemove(st, slug) == git_commit(remove_file(st, slug), {slug})

\* RevisionStore::rename: fails if old_slug is absent or new_slug present.
StoreRenameOk(st, old_slug, new_slug) ==
    /\ read_file(st, old_slug) # NoContent
    /\ read_file(st, new_slug) = NoContent
StoreRename(st, old_slug, new_slug) ==
    git_commit(remove_file(write_file(st, new_slug, read_file(st, old_slug)), old_slug),
               {old_slug, new_slug})

\* RevisionStore::get_page_version: the blob as of a commit.
get_page_version(st, slug, hash) ==
    IF hash[2] \in 1..Len(st.commits) THEN st.commits[hash[2]][slug] ELSE NoContent

\* RevisionStore::restore: the blob that existed at at_hash under old_slug
\* is copied to new_slug and committed.
StoreRestoreOk(st, old_slug, at_hash) ==
    get_page_version(st, old_slug, at_hash) # NoContent
StoreRestore(st, new_slug, old_slug, at_hash) ==
    git_commit(write_file(st, new_slug, get_page_version(st, old_slug, at_hash)),
               {new_slug})

\* RevisionStore::empty_commit: a commit with no tree change.
EmptyCommit(st) == [st EXCEPT !.commits = Append(@, st.commits[Len(st.commits)])]

\* RevisionStore::get_page: the current blob.
StoreGetPage(st, slug) == read_file(st, slug)

\* ------------------------------------------------------------- database
ChangeTypes == {"Create", "Modify", "Rename", "Delete", "Restore", "Tags"}

\* Revision messages.  The page operations are called with FirstMessage by
\* CommitUser; edit_revision is called with any message.
Messages == {"m1", "m2"}
FirstMessage == "m1"
CommitUser == 1

\* Every operation recorded as a Modify.
AlwaysModify(op) == "Modify"

\* ChangeType of each page operation.
ChangeTypeOf(op) ==
    CASE op = "create" -> "Create"
      [] op = "commit" -> "Modify"
      [] op = "rename" -> "Rename"
      [] op = "remove" -> "Delete"
      [] op = "restore" -> "Restore"
      [] OTHER -> "Tags"

\* PageService::get_page_id: the rows matching wiki_id and slug.  The query
\* has no deleted_at filter and no ORDER BY, so .first() may yield any of
\* them; the empty set is Ok(None).
get_page_id(wiki_id, slug) ==
    {p \in DOMAIN pages : pages[p].wiki_id = wiki_id /\ pages[p].slug = slug}

\* PageService::check_page: is there a row with this slug and deleted_at
\* null.  The query does not filter by wiki_id.
check_page(wiki_id, slug) ==
    \E p \in DOMAIN pages : pages[p].slug = slug /\ ~pages[p].deleted

\* PageService::get_page: the row with wiki_id, slug and deleted_at null.
get_page(wiki_id, slug) ==
    {p \in DOMAIN pages :
        pages[p].wiki_id = wiki_id /\ pages[p].slug = slug /\ ~pages[p].deleted}

\* PageService::get_page_contents: the store's current blob at the slug.
get_page_contents(wiki_id, slug) == StoreGetPage(stores[wiki_id], slug)

\* PageService::get_last_hash: wiki_id and slug of the row with the page_id
\* (deleted or not) and the git_commit of the page's revision with the
\* greatest revision_id; Ok(None) (NoHash) without such a row.
get_last_hash(page_id) ==
    IF page_id \notin DOMAIN pages THEN NoHash
    ELSE revisions[Max({i \in 1..Len(revisions) : revisions[i].page_id = page_id})].git_commit

\* PageService::get_page_contents_by_id: the blob at the page's slug as of
\* the page's last commit, in the store of the page's wiki.
get_page_contents_by_id(page_id) ==
    IF get_last_hash(page_id) = NoHash THEN NoContent
    ELSE get_page_version(stores[pages[page_id].wiki_id], pages[page_id].slug,
                          get_last_hash(page_id))

\* PageService::restore, page_id absent: the most recently created row with
\* wiki_id, slug and deleted_at set (created_at grows with page_id).
LastDeletedPage(wiki_id, slug) ==
    LET found == {p \in DOMAIN pages :
                    pages[p].wiki_id = wiki_id /\ pages[p].slug = slug /\ pages[p].deleted}
    IN  IF found = {} THEN NoPage ELSE Max(found)

\* PageService::restore: revisions of the page whose change_type is not
\* Delete; the query takes the one with the greatest revision_id.
NonDeleteRevisions(page_id) ==
    {i \in 1..Len(revisions) :
        revisions[i].page_id = page_id /\ revisions[i].change_type # "Delete"}

\* tag_diff: (new - old, old - new), each collected from a set and sorted.
RECURSIVE SortedSeq(_)
SortedSeq(S) ==
    IF S = {} THEN << >>
    ELSE LET m == CHOOSE x \in S : \A y \in S : x <= y
         IN  <<m>> \o SortedSeq(S \ {m})

Range(seq) == {seq[i] : i \in 1..Len(seq)}

\* tag_diff with its two differences taken the wrong way round.
TagDiffSwapped(current_tags, new_tags) ==
    [added_tags |-> SortedSeq(Range(current_tags) \ Range(new_tags)),
     removed_tags |-> SortedSeq(Range(new_tags) \ Range(current_tags))]

tag_diff(current_tags, new_tags) ==
    [added_tags |-> SortedSeq(Range(new_tags) \ Range(current_tags)),
     removed_tags |-> SortedSeq(Range(current_tags) \ Range(new_tags))]

\* The caller's list as it was passed, not sorted.
TagsAsPassed(tags) == tags

\* tags.sort(): the caller's list in ascending order, duplicates kept.
SortTags(tags) == SortSeq(tags, LAMBDA x, y : x < y)

\* ---------------------------------------------------------- transactions
\* A task is idle or inside the transaction of one operation: at "store" it
\* is about to use the revision store, at "insert" it holds the new commit
\* hash and is about to insert the revision row and commit.
IdleTask ==
    [pc |-> "idle", op |-> "none", wiki_id |-> 0, slug |-> "", content |-> NoContent,
     new_slug |-> "", tags |-> << >>, page_id |-> NoPage,
     pid |-> NoPage, pend |-> "none", swiki |-> 0, old_slug |-> "", at_hash |-> NoHash,
     cur_tags |-> << >>, hash |-> NoHash, live |-> NoPage, dead |-> FALSE]

\* The call a task makes.  live and dead record what the caller could see
\* when it called: the live page at (wiki_id, slug), and whether the slug
\* was held by deleted pages only.
Request(op, wiki_id, slug) ==
    [IdleTask EXCEPT !.op = op, !.wiki_id = wiki_id, !.slug = slug, !.swiki = wiki_id,
        !.live = IF get_page(wiki_id, slug) = {} THEN NoPage
                 ELSE CHOOSE p \in get_page(wiki_id, slug) : TRUE,
        !.dead = /\ get_page(wiki_id, slug) = {}
                 /\ get_page_id(wiki_id, slug) # {}]

InFlight(t) == task[t].pc # "idle"

\* Row lock: another open transaction has updated the row.
Locked(p, t) ==
    \E u \in Tasks \ {t} :
        InFlight(u) /\ task[u].pend \in {"slug", "deleted", "touch"} /\ task[u].pid = p

\* pages has unique(wiki_id, slug) where deleted_at is null.  These rows
\* stand against a statement that puts live row p under the key ...
IndexConflict(p, wiki_id, slug) == get_page(wiki_id, slug) \ {p} # {}

\* ... and these open transactions hold the key: they have written a row
\* that stands against it, or a row that would.
IndexWait(t, p, wiki_id, slug) ==
    \/ \E q \in get_page(wiki_id, slug) \ {p} : Locked(q, t)
    \/ \E u \in Tasks \ {t} :
        /\ InFlight(u)
        /\ task[u].wiki_id = wiki_id
        /\ \/ task[u].pend = "insert" /\ task[u].slug = slug
           \/ /\ task[u].pend = "slug" /\ task[u].new_slug = slug
              /\ ~pages[task[u].pid].deleted

\* The table without the index: every statement passes.
NoUniqueIndex(t, p, wiki_id, slug) == "pass"

\* The index on a statement of task t that puts live row p (NoPage: a new
\* row) under (wiki_id, slug): the statement waits for the transactions
\* that hold the key, then fails if a live row stands against it.
UniqueIndex(t, p, wiki_id, slug) ==
    IF IndexWait(t, p, wiki_id, slug) THEN "wait"
    ELSE IF IndexConflict(p, wiki_id, slug) THEN "fail"
    ELSE "pass"

\* The page_id sequence: greater than every id handed out and still in use.
NextPageId ==
    Max(DOMAIN pages \cup {task[u].pid : u \in {v \in Tasks : task[v].pend = "insert"}}
        \cup {0}) + 1

\* The transaction of task t commits: its writes reach the pages table.
PendingApplied(t) ==
    CASE task[t].pend = "insert" ->
            pages @@ (task[t].pid :>
                [wiki_id |-> task[t].wiki_id, slug |-> task[t].slug,
                 tags |-> << >>, deleted |-> FALSE])
      [] task[t].pend = "slug" -> [pages EXCEPT ![task[t].pid].slug = task[t].new_slug]
      [] task[t].pend = "deleted" -> [pages EXCEPT ![task[t].pid].deleted = TRUE]
      [] OTHER -> pages

\* The operation of task t has returned; its transaction is over.
Returned(t) == [task EXCEPT ![t] = IdleTask]

\* The operation of task t got past its first statements and now waits for
\* the revision store.
Proceeds(t, req) == [task EXCEPT ![t] = [req EXCEPT !.pc = "store"]]

DbUnchanged == UNCHANGED <<pages, revisions, tag_history>>

\* ----------------------------------------------------- page operations
\* What each operation returns from its statements before the store is
\* used: an error, or "Ok" when it goes on to the store.

\* PageService::create: PageExists if get_page_id finds a row.
CreateCheck(wiki_id, slug) ==
    IF get_page_id(wiki_id, slug) # {} THEN "PageExists" ELSE "Ok"

\* commit, rename, remove, tags: PageNotFound if get_page_id finds no row.
FindCheck(wiki_id, slug) ==
    IF get_page_id(wiki_id, slug) = {} THEN "PageNotFound" ELSE "Ok"

\* PageService::rename: the update of pages.slug on row p; the unique index
\* turns a second live row under (wiki_id, new_slug) into a database error.
RenameCheck(t, p, wiki_id, new_slug) ==
    IF ~pages[p].deleted /\ UniqueIndex(t, p, wiki_id, new_slug) = "fail"
        THEN "Database" ELSE "Ok"

\* PageService::restore: the page to restore, given the optional page_id.
RestoreTarget(wiki_id, slug, page_id) ==
    IF page_id # NoPage THEN page_id ELSE LastDeletedPage(wiki_id, slug)

\* PageService::restore: PageExists if check_page, PageNotFound if there is
\* no page to restore, a database error if it has no revision to restore.
RestoreCheck(wiki_id, slug, page_id) ==
    IF check_page(wiki_id, slug) THEN "PageExists"
    ELSE IF RestoreTarget(wiki_id, slug, page_id) \notin DOMAIN pages THEN "PageNotFound"
    ELSE IF NonDeleteRevisions(RestoreTarget(wiki_id, slug, page_id)) = {} THEN "Database"
    ELSE "Ok"

\* PageService::create, up to the store commit: the page row is inserted.
Create(t, wiki_id, slug, content) ==
    LET req == [Request("create", wiki_id, slug) EXCEPT !.content = content]
    IN  /\ ~InFlight(t)
        /\ IF CreateCheck(wiki_id, slug) # "Ok"
             THEN UNCHANGED task
             ELSE /\ UniqueIndex(t, NoPage, wiki_id, slug) = "pass"
                  /\ task' = Proceeds(t, [req EXCEPT !.pid = NextPageId, !.pend = "insert"])
        /\ DbUnchanged
        /\ UNCHANGED <<stores, last, rt>>
        /\ UNCHANGED authvars
        /\ UNCHANGED adminvars
        /\ UNCHANGED lockvars

\* PageService::commit, up to the store commit: the row that get_page_id
\* yields is updated.
Commit(t, wiki_id, slug, content) ==
    LET req == [Request("commit", wiki_id, slug) EXCEPT !.content = content]
    IN  /\ ~InFlight(t)
        /\ IF FindCheck(wiki_id, slug) # "Ok"
             THEN UNCHANGED task
             ELSE \E p \in get_page_id(wiki_id, slug) :
                    /\ ~Locked(p, t)
                    /\ task' = Proceeds(t, [req EXCEPT !.pid = p, !.pend = "touch"])
        /\ DbUnchanged
        /\ UNCHANGED <<stores, last, rt>>
        /\ UNCHANGED authvars
        /\ UNCHANGED adminvars
        /\ UNCHANGED lockvars

\* PageService::rename, up to the store rename: the slug of the row that
\* get_page_id yields is set to new_slug.
Rename(t, wiki_id, old_slug, new_slug) ==
    LET req == [Request("rename", wiki_id, old_slug) EXCEPT !.new_slug = new_slug]
    IN  /\ ~InFlight(t)
        /\ IF FindCheck(wiki_id, old_slug) # "Ok"
             THEN UNCHANGED task
             ELSE \E p \in get_page_id(wiki_id, old_slug) :
                    /\ ~Locked(p, t)
                    /\ pages[p].deleted \/ UniqueIndex(t, p, wiki_id, new_slug) # "wait"
                    /\ IF RenameCheck(t, p, wiki_id, new_slug) # "Ok"
                         THEN UNCHANGED task
                         ELSE task' = Proceeds(t, [req EXCEPT !.pid = p, !.pend = "slug"])
        /\ DbUnchanged
        /\ UNCHANGED <<stores, last, rt>>
        /\ UNCHANGED authvars
        /\ UNCHANGED adminvars
        /\ UNCHANGED lockvars

\* remove with its update of deleted_at outside the transaction: the row
\* is written at once and no rollback takes the write back.
RemoveOutsideTransaction(t, wiki_id, slug) ==
    LET req == Request("remove", wiki_id, slug)
    IN  /\ ~InFlight(t)
        /\ IF FindCheck(wiki_id, slug) # "Ok"
             THEN UNCHANGED <<task, pages>>
             ELSE \E p \in get_page_id(wiki_id, slug) :
                    /\ ~Locked(p, t)
                    /\ pages' = [pages EXCEPT ![p].deleted = TRUE]
                    /\ task' = Proceeds(t, [req EXCEPT !.pid = p, !.pend = "touch"])
        /\ UNCHANGED <<revisions, tag_history, stores, last, rt>>
        /\ UNCHANGED authvars
        /\ UNCHANGED adminvars
        /\ UNCHANGED lockvars

\* PageService::remove, up to the store removal: deleted_at of the row that
\* get_page_id yields is set.
Remove(t, wiki_id, slug) ==
    LET req == Request("remove", wiki_id, slug)
    IN  /\ ~InFlight(t)
        /\ IF FindCheck(wiki_id, slug) # "Ok"
             THEN UNCHANGED task
             ELSE \E p \in get_page_id(wiki_id, slug) :
                    /\ ~Locked(p, t)
                    /\ task' = Proceeds(t, [req EXCEPT !.pid = p, !.pend = "deleted"])
        /\ DbUnchanged
        /\ UNCHANGED <<stores, last, rt>>
        /\ UNCHANGED authvars
        /\ UNCHANGED adminvars
        /\ UNCHANGED lockvars

\* PageService::restore, up to the store restore: the page, its wiki and
\* slug, and its last commit that is no deletion.  No row is written.
Restore(t, wiki_id, slug, page_id) ==
    LET req == [Request("restore", wiki_id, slug) EXCEPT !.page_id = page_id]
        pid == RestoreTarget(wiki_id, slug, page_id)
    IN  /\ ~InFlight(t)
        /\ IF RestoreCheck(wiki_id, slug, page_id) # "Ok"
             THEN UNCHANGED task
             ELSE task' = Proceeds(t,
                    [req EXCEPT !.pid = pid,
                                !.swiki = pages[pid].wiki_id,
                                !.old_slug = pages[pid].slug,
                                !.at_hash = revisions[Max(NonDeleteRevisions(pid))].git_commit])
        /\ DbUnchanged
        /\ UNCHANGED <<stores, last, rt>>
        /\ UNCHANGED authvars
        /\ UNCHANGED adminvars
        /\ UNCHANGED lockvars

\* PageService::tags, up to the empty store commit: the current tags of the
\* row that get_page_id yields are read.
Tags(t, wiki_id, slug, tags) ==
    LET req == [Request("tags", wiki_id, slug) EXCEPT !.tags = tags]
    IN  /\ ~InFlight(t)
        /\ IF FindCheck(wiki_id, slug) # "Ok"
             THEN UNCHANGED task
             ELSE \E p \in get_page_id(wiki_id, slug) :
                    task' = Proceeds(t, [req EXCEPT !.pid = p, !.cur_tags = pages[p].tags])
        /\ DbUnchanged
        /\ UNCHANGED <<stores, last, rt>>
        /\ UNCHANGED authvars
        /\ UNCHANGED adminvars
        /\ UNCHANGED lockvars

\* Can the store operation of request r be carried out on store st.
StoreAccepts(r, st) ==
    CASE r.op = "remove" -> StoreRemoveFound(st, r.slug)
      [] r.op = "rename" -> StoreRenameOk(st, r.slug, r.new_slug)
      [] r.op = "restore" ->
            r.at_hash[1] = r.swiki /\ StoreRestoreOk(st, r.old_slug, r.at_hash)
      [] OTHER -> TRUE

\* The store after the store operation of request r.
StoreAfter(r, st) ==
    CASE r.op \in {"create", "commit"} -> StoreCommit(st, r.slug, r.content)
      [] r.op = "rename" -> StoreRename(st, r.slug, r.new_slug)
      [] r.op = "remove" -> StoreRemove(st, r.slug)
      [] r.op = "restore" -> StoreRestore(st, r.slug, r.old_slug, r.at_hash)
      [] OTHER -> EmptyCommit(st)

\* What the operation returns when the store refuses: remove maps Ok(None)
\* to PageNotFound, the others pass the store's error on.
StoreError(op) == IF op = "remove" THEN "PageNotFound" ELSE "Store"

\* The store step with the store's refusal ignored: the operation goes on
\* to its revision insert with no commit made.
StoreStepIgnoresRefusal(t, cap) ==
    LET w == task[t].swiki
        st == stores[w]
    IN  /\ task[t].pc = "store"
        /\ IF StoreAccepts(task[t], st)
             THEN /\ Len(st.commits) < cap
                  /\ stores' = [stores EXCEPT ![w] = StoreAfter(task[t], st)]
                  /\ task' = [task EXCEPT ![t].pc = "insert",
                                          ![t].hash = HeadHash(w, StoreAfter(task[t], st))]
             ELSE /\ task' = [task EXCEPT ![t].pc = "insert", ![t].hash = NoHash]
                  /\ UNCHANGED stores
        /\ DbUnchanged
        /\ UNCHANGED <<last, rt>>
        /\ UNCHANGED authvars
        /\ UNCHANGED adminvars
        /\ UNCHANGED lockvars

\* The store step of every operation: under the store's write lock the
\* store operation runs as a whole.  An error ends the operation and rolls
\* the transaction back.
StoreStep(t, cap) ==
    LET w == task[t].swiki
        st == stores[w]
    IN  /\ task[t].pc = "store"
        /\ IF StoreAccepts(task[t], st)
             THEN /\ Len(st.commits) < cap
                  /\ stores' = [stores EXCEPT ![w] = StoreAfter(task[t], st)]
                  /\ task' = [task EXCEPT ![t].pc = "insert",
                                          ![t].hash = HeadHash(w, StoreAfter(task[t], st))]
             ELSE /\ task' = Returned(t)
                  /\ UNCHANGED stores
        /\ DbUnchanged
        /\ UNCHANGED <<last, rt>>
        /\ UNCHANGED authvars
        /\ UNCHANGED adminvars
        /\ UNCHANGED lockvars

\* The pages table after the statements that follow the revision insert:
\* tags sorts the list and updates pages.tags with no filter, on every row.
PagesAfter(t) ==
    IF task[t].op = "tags"
        THEN [p \in DOMAIN pages |-> [pages[p] EXCEPT !.tags = SortTags(task[t].tags)]]
        ELSE PendingApplied(t)

\* The observer of round trips: a successful create starts it on the new
\* page; commits and renames addressed to the page's slug are followed;
\* remove of that slug and then restore of that slug complete the trip.
\* Any other create, remove or restore ends the observation.
RtOff == [phase |-> "off", wiki_id |-> 0, slug |-> "", content |-> NoContent]

RtNext(r) ==
    LET mine == r.wiki_id = rt.wiki_id /\ r.slug = rt.slug
    IN  CASE rt.phase = "unused" -> rt
          [] r.op = "create" ->
                [phase |-> "live", wiki_id |-> r.wiki_id, slug |-> r.slug,
                 content |-> r.content]
          [] rt.phase = "live" /\ r.op = "commit" /\ mine /\ r.content # NoContent ->
                [rt EXCEPT !.content = r.content]
          [] rt.phase = "live" /\ r.op = "rename" /\ mine -> [rt EXCEPT !.slug = r.new_slug]
          [] rt.phase = "live" /\ r.op = "remove" /\ mine -> [rt EXCEPT !.phase = "removed"]
          [] rt.phase = "live" /\ r.op \in {"commit", "rename", "tags"} -> rt
          [] rt.phase = "removed" /\ r.op = "restore" /\ mine /\ r.page_id = NoPage ->
                [rt EXCEPT !.phase = "restored"]
          [] OTHER -> RtOff

\* The end of every operation: the revision row is inserted (for tags also
\* the tag_history row, then the tags update) and the transaction commits.
Finish(t) ==
    /\ task[t].pc = "insert"
    /\ task[t].op = "tags" => \A p \in DOMAIN pages : ~Locked(p, t)
    /\ revisions' = Append(revisions,
            [page_id |-> task[t].pid, user_id |-> CommitUser, message |-> FirstMessage,
             change_type |-> ChangeTypeOf(task[t].op), git_commit |-> task[t].hash])
    /\ tag_history' =
            IF task[t].op = "tags"
                THEN tag_history @@
                        ((Len(revisions) + 1) :> tag_diff(task[t].cur_tags, task[t].tags))
                ELSE tag_history
    /\ pages' = PagesAfter(t)
    /\ task' = Returned(t)
    /\ last' = [task[t] EXCEPT !.pc = "idle"]
    /\ rt' = RtNext(task[t])
    /\ UNCHANGED stores
    /\ UNCHANGED authvars
    /\ UNCHANGED adminvars
    /\ UNCHANGED lockvars

\* The revision insert fails (an infrastructure error) after the store
\* commit succeeded: the transaction rolls back, the store keeps the commit.
DbFail(t) ==
    /\ task[t].pc = "insert"
    /\ task' = Returned(t)
    /\ DbUnchanged
    /\ UNCHANGED <<stores, last, rt>>
    /\ UNCHANGED authvars
    /\ UNCHANGED adminvars
    /\ UNCHANGED lockvars

\* The operation is cancelled at a suspension point, while it waits for
\* the store: the transaction rolls back.
Cancel(t) ==
    /\ task[t].pc = "store"
    /\ task' = Returned(t)
    /\ DbUnchanged
    /\ UNCHANGED <<stores, last, rt>>
    /\ UNCHANGED authvars
    /\ UNCHANGED adminvars
    /\ UNCHANGED lockvars

\* The update of edit_revision with no filter: every row gets the message.
UpdateEveryMessage(revision_id, message) ==
    [i \in 1..Len(revisions) |-> [revisions[i] EXCEPT !.message = message]]

\* The update of edit_revision: the message of the rows whose revision_id
\* is the given one.
UpdateMessage(revision_id, message) ==
    [i \in 1..Len(revisions) |->
        IF i = revision_id THEN [revisions[i] EXCEPT !.message = message]
        ELSE revisions[i]]

\* PageService::edit_revision: one update statement outside any
\* transaction; Ok whether or not a row matched.
EditRevision(revision_id, message) ==
    /\ revisions' = UpdateMessage(revision_id, message)
    /\ UNCHANGED <<pages, tag_history, stores, task, last, rt>>
    /\ UNCHANGED authvars
    /\ UNCHANGED adminvars
    /\ UNCHANGED lockvars

\* ------------------------------------------------ passwords and sessions
Users == {1, 2}
PasswordInputs == {"pw1", "pw2"}
Addresses == {"ip1", "ip2"}
Tokens == {"t1", "t2"}

\* The password each user was created with.
Credentials == (1 :> "pw1") @@ (2 :> "pw2")

\* Passwords put to the password policy.  A password is named here and has
\* its lengths in the tables below: "short" is five ASCII characters, "wide"
\* seven characters of two bytes each, "123456" and "password" are lines of
\* the blacklist file, "edge" has 8192 bytes, "long" one more.
PolicyInputs == {"short", "wide", "123456", "password", "edge", "long"}

AllPasswords == PasswordInputs \cup PolicyInputs

MAX_PASSWORD_LEN == 8192

\* password.len(): the length in bytes.
ByteLen(password) ==
    CASE password = "short" -> 5
      [] password = "wide" -> 14
      [] password = "123456" -> 6
      [] password = "password" -> 8
      [] password = "edge" -> MAX_PASSWORD_LEN
      [] password = "long" -> MAX_PASSWORD_LEN + 1
      [] OTHER -> 14

\* password.chars().count(): the length in characters.
CharCount(password) ==
    CASE password = "wide" -> 7
      [] OTHER -> ByteLen(password)

\* PasswordManager.blacklist, as build_blacklist loaded it.
Blacklist == {"123456", "password"}

\* The salts new_password may draw.
Salts == {1, 2}

\* The policy with its length tests only.
VerifyLengthOnly(password) ==
    IF ByteLen(password) > MAX_PASSWORD_LEN
        THEN "NewPasswordInvalid: password too long"
        ELSE "Ok"

\* PasswordManager::verify_password: the first test that fails names the
\* error.
verify_password(password) ==
    IF ByteLen(password) > MAX_PASSWORD_LEN
        THEN "NewPasswordInvalid: password too long"
    ELSE IF CharCount(password) < 8
        THEN "NewPasswordInvalid: password must be at least 8 characters"
    ELSE IF password \in Blacklist
        THEN "NewPasswordInvalid: password is too common"
    ELSE "Ok"

\* The key derivation: one hash per password, salt and parameters.
Scrypt(password, salt) == <<"scrypt", salt, password>>

\* new_password: the passwords row for a password, under a salt and the
\* current cost parameters.
new_password(user_id, password, salt) ==
    [user_id |-> user_id, salt |-> salt, hash |-> Scrypt(password, salt),
     logn |-> 15, param_r |-> 8, param_p |-> 1]

\* Password::logn, param_r, param_p: the columns are smallint, int and int,
\* the accessors convert them to u8, u32 and u32 and panic when the value
\* does not fit.
ParamsInRange(record) ==
    /\ record.logn \in 0..255
    /\ record.param_r >= 0
    /\ record.param_p >= 0

\* check_password: the hash of the password under the record's salt is
\* the record's hash.
check_password(record, password) == Scrypt(password, record.salt) = record.hash

\* passwords::table.find(id): the rows of the user.
FindPassword(user_id) == {r \in passwords : r.user_id = user_id}

\* insert_into(passwords) with no conflict clause and no key.
InsertOnly(model) == passwords \cup {model}

\* PasswordManager::set, its statement: insert_into(passwords) ..
\* on_conflict(user_id).do_update(): the row of the user is replaced.
Upsert(model) == {r \in passwords : r.user_id # model.user_id} \cup {model}

\* PasswordManager::check_internal once the record is fetched, or found
\* absent.  "panic" stands for the task unwinding out of an accessor: no
\* value is returned.
check_internal(user_id, password) ==
    IF ByteLen(password) > MAX_PASSWORD_LEN THEN "AuthenticationFailed"
    ELSE IF FindPassword(user_id) = {} THEN "AuthenticationFailed"
    ELSE LET record == CHOOSE r \in FindPassword(user_id) : TRUE
         IN  IF ~ParamsInRange(record) THEN "panic"
             ELSE IF check_password(record, password) THEN "Ok"
             ELSE "AuthenticationFailed"

\* PasswordManager::check_internal with the fetch that may fail: the
\* database error is passed on by the ? operator as Error::Database.
CheckOutcomes(user_id, password) ==
    IF ByteLen(password) > MAX_PASSWORD_LEN THEN {"AuthenticationFailed"}
    ELSE {check_internal(user_id, password), "Database"}

\* SessionManager::get_token: the token of the user's session row, if any.
get_token(user_id) ==
    IF user_id \in DOMAIN sessions THEN {sessions[user_id].token} ELSE {}

\* SessionManager::get_session: the user's session row, if any.
get_session(user_id) ==
    IF user_id \in DOMAIN sessions THEN {sessions[user_id]} ELSE {}

\* SessionManager::check_token: the token is the one stored for the user.
check_token(user_id, token) ==
    IF user_id \in DOMAIN sessions /\ sessions[user_id].token = token
        THEN "Ok" ELSE "AuthenticationFailed"

\* SessionManager::create_token: the row of the user is inserted, or
\* replaced if there is one.
create_token(user_id, ip_address, token) ==
    (user_id :> [user_id |-> user_id, token |-> token, ip_address |-> ip_address])
        @@ sessions

\* SessionManager::revoke_token: the row of the user is deleted.
revoke_token(user_id) == [u \in DOMAIN sessions \ {user_id} |-> sessions[u]]

\* A task is idle or inside create_session: at "check" it awaits the
\* password check, at "pause" the failure pause, at "token" it is about to
\* look the token up, at "create" about to create one.
IdleCall == [pc |-> "idle", user_id |-> 0, password |-> "", ip_address |-> ""]

NoReturn ==
    [op |-> "none", user_id |-> 0, password |-> "", ip_address |-> "", result |-> ""]

\* What create_session of task t returns.
SessionReturn(t, result) ==
    [op |-> "create_session", user_id |-> call[t].user_id,
     password |-> call[t].password, ip_address |-> call[t].ip_address,
     result |-> result]

\* Server::create_session is called.
CreateSession(t, user_id, password, ip_address) ==
    /\ call[t].pc = "idle"
    /\ call' = [call EXCEPT ![t] = [pc |-> "check", user_id |-> user_id,
                                    password |-> password, ip_address |-> ip_address]]
    /\ UNCHANGED <<passwords, sessions, ret>>
    /\ UNCHANGED pagevars
    /\ UNCHANGED adminvars
    /\ UNCHANGED lockvars

\* create_session with the result of the password check ignored.
CheckPasswordIgnored(t) ==
    /\ call[t].pc = "check"
    /\ call' = [call EXCEPT ![t].pc = "token"]
    /\ UNCHANGED <<passwords, sessions, ret>>
    /\ UNCHANGED pagevars
    /\ UNCHANGED adminvars
    /\ UNCHANGED lockvars

\* PasswordManager::check inside create_session: a failure goes to the
\* failure pause, a success on to the token.
CheckPassword(t) ==
    LET result == check_internal(call[t].user_id, call[t].password)
    IN  /\ call[t].pc = "check"
        /\ IF result = "panic"
             THEN /\ call' = [call EXCEPT ![t] = IdleCall]
                  /\ ret' = SessionReturn(t, "panic")
             ELSE /\ call' = [call EXCEPT ![t].pc =
                                IF result = "Ok" THEN "token" ELSE "pause"]
                  /\ UNCHANGED ret
        /\ UNCHANGED <<passwords, sessions>>
        /\ UNCHANGED pagevars
        /\ UNCHANGED adminvars
        /\ UNCHANGED lockvars

\* password_pause is over: check returns its error, create_session passes
\* it on and its transaction rolls back.
PasswordPause(t) ==
    /\ call[t].pc = "pause"
    /\ call' = [call EXCEPT ![t] = IdleCall]
    /\ ret' = SessionReturn(t, "AuthenticationFailed")
    /\ UNCHANGED <<passwords, sessions>>
    /\ UNCHANGED pagevars
    /\ UNCHANGED adminvars
    /\ UNCHANGED lockvars

\* create_session after the password check: the token of the session there
\* is gets returned; without one the call goes on to create_token.
IssueToken(t) ==
    /\ call[t].pc = "token"
    /\ IF get_token(call[t].user_id) # {}
         THEN /\ call' = [call EXCEPT ![t] = IdleCall]
              /\ ret' = SessionReturn(t, sessions[call[t].user_id].token)
         ELSE /\ call' = [call EXCEPT ![t].pc = "create"]
              /\ UNCHANGED ret
    /\ UNCHANGED <<passwords, sessions>>
    /\ UNCHANGED pagevars
    /\ UNCHANGED adminvars
    /\ UNCHANGED lockvars

\* create_session creates the token, a random one, and returns it; the
\* transaction commits.
CreateToken(t) ==
    /\ call[t].pc = "create"
    /\ \E token \in Tokens :
        /\ sessions' = create_token(call[t].user_id, call[t].ip_address, token)
        /\ ret' = SessionReturn(t, token)
    /\ call' = [call EXCEPT ![t] = IdleCall]
    /\ UNCHANGED passwords
    /\ UNCHANGED pagevars
    /\ UNCHANGED adminvars
    /\ UNCHANGED lockvars

\* end_session that reports the row and leaves it in the table.
EndSessionKeepsRow(t, user_id) ==
    /\ call[t].pc = "idle"
    /\ ret' = [NoReturn EXCEPT !.op = "end_session", !.user_id = user_id,
                  !.result = IF user_id \in DOMAIN sessions THEN "true" ELSE "false"]
    /\ UNCHANGED <<passwords, sessions, call>>
    /\ UNCHANGED pagevars
    /\ UNCHANGED adminvars
    /\ UNCHANGED lockvars

\* Server::end_session: revoke_token, and whether there was a row.
EndSession(t, user_id) ==
    /\ call[t].pc = "idle"
    /\ sessions' = revoke_token(user_id)
    /\ ret' = [NoReturn EXCEPT !.op = "end_session", !.user_id = user_id,
                  !.result = IF user_id \in DOMAIN sessions THEN "true" ELSE "false"]
    /\ UNCHANGED <<passwords, call>>
    /\ UNCHANGED pagevars
    /\ UNCHANGED adminvars
    /\ UNCHANGED lockvars

\* ------------------------------------------------------ password manager
\* A task is idle or inside PasswordManager::check: at "check" it is about
\* to run check_internal, at "pause" it holds the error and is in
\* password_pause.
IdlePwCall == [pc |-> "idle", user_id |-> 0, password |-> "", error |-> ""]

NoPwReturn ==
    [op |-> "none", user_id |-> 0, password |-> "", result |-> "", paused |-> FALSE]

PwReturn(op, user_id, password, result, paused) ==
    [op |-> op, user_id |-> user_id, password |-> password, result |-> result,
     paused |-> paused]

\* PasswordManager::set: the policy, then the row under a fresh salt.  The
\* statement may fail in the database.
Set(t, user_id, password) ==
    /\ pwcall[t].pc = "idle"
    /\ IF verify_password(password) # "Ok"
         THEN /\ pwret' = PwReturn("set", user_id, password,
                                   verify_password(password), FALSE)
              /\ UNCHANGED passwords
         ELSE \E salt \in Salts :
                \/ /\ passwords' = Upsert(new_password(user_id, password, salt))
                   /\ pwret' = PwReturn("set", user_id, password, "Ok", FALSE)
                \/ /\ pwret' = PwReturn("set", user_id, password, "Database", FALSE)
                   /\ UNCHANGED passwords
    /\ UNCHANGED <<sessions, call, ret, users, pwcall, wikis, wikimap, wret>>
    /\ UNCHANGED pagevars
    /\ UNCHANGED lockvars

\* PasswordManager::check is called.
Check(t, user_id, password) ==
    /\ pwcall[t].pc = "idle"
    /\ pwcall' = [pwcall EXCEPT ![t] =
                    [pc |-> "check", user_id |-> user_id, password |-> password,
                     error |-> ""]]
    /\ UNCHANGED <<users, pwret, wikis, wikimap, wret>>
    /\ UNCHANGED authvars
    /\ UNCHANGED pagevars
    /\ UNCHANGED lockvars

\* check that hands the error of check_internal on at once.
CheckInternalNoPause(t) ==
    /\ pwcall[t].pc = "check"
    /\ \E result \in CheckOutcomes(pwcall[t].user_id, pwcall[t].password) :
        pwret' = PwReturn("check", pwcall[t].user_id, pwcall[t].password, result, FALSE)
    /\ pwcall' = [pwcall EXCEPT ![t] = IdlePwCall]
    /\ UNCHANGED <<users, wikis, wikimap, wret>>
    /\ UNCHANGED authvars
    /\ UNCHANGED pagevars
    /\ UNCHANGED lockvars

\* PasswordManager::check, the match on check_internal: Ok is returned, an
\* error is kept while the call goes into password_pause.  A panic ends the
\* task with no value.
CheckInternal(t) ==
    /\ pwcall[t].pc = "check"
    /\ \E result \in CheckOutcomes(pwcall[t].user_id, pwcall[t].password) :
        IF result \in {"Ok", "panic"}
            THEN /\ pwret' = PwReturn("check", pwcall[t].user_id, pwcall[t].password,
                                      result, FALSE)
                 /\ pwcall' = [pwcall EXCEPT ![t] = IdlePwCall]
            ELSE /\ pwcall' = [pwcall EXCEPT ![t].pc = "pause", ![t].error = result]
                 /\ UNCHANGED pwret
    /\ UNCHANGED <<users, wikis, wikimap, wret>>
    /\ UNCHANGED authvars
    /\ UNCHANGED pagevars
    /\ UNCHANGED lockvars

\* password_pause is over: check returns the error.
CheckPause(t) ==
    /\ pwcall[t].pc = "pause"
    /\ pwret' = PwReturn("check", pwcall[t].user_id, pwcall[t].password,
                         pwcall[t].error, TRUE)
    /\ pwcall' = [pwcall EXCEPT ![t] = IdlePwCall]
    /\ UNCHANGED <<users, wikis, wikimap, wret>>
    /\ UNCHANGED authvars
    /\ UNCHANGED pagevars
    /\ UNCHANGED lockvars

\* Rows the passwords table may hold for a user when the service starts:
\* the row of an earlier set, or a row whose cost parameters do not fit the
\* types the accessors convert to.
StoredRows(user_id) ==
    LET row == new_password(user_id, Credentials[user_id], user_id)
    IN  {row, [row EXCEPT !.logn = 256], [row EXCEPT !.logn = -1],
         [row EXCEPT !.param_r = -1], [row EXCEPT !.param_p = -1]}

\* ----------------------------------------------------------------- users
\* UserManager::soft_delete: deleted_at is set.  Taken while no login of
\* the user is in flight.
SoftDelete(user_id) ==
    /\ ~users[user_id].deleted
    /\ \A t \in Tasks : call[t].pc = "idle" \/ call[t].user_id # user_id
    /\ users' = [users EXCEPT ![user_id].deleted = TRUE]
    /\ UNCHANGED <<pwcall, pwret, wikis, wikimap, wret>>
    /\ UNCHANGED authvars
    /\ UNCHANGED pagevars
    /\ UNCHANGED lockvars

\* UserManager::undelete: deleted_at is cleared.
Undelete(user_id) ==
    /\ users[user_id].deleted
    /\ \A t \in Tasks : call[t].pc = "idle" \/ call[t].user_id # user_id
    /\ users' = [users EXCEPT ![user_id].deleted = FALSE]
    /\ UNCHANGED <<pwcall, pwret, wikis, wikimap, wret>>
    /\ UNCHANGED authvars
    /\ UNCHANGED pagevars
    /\ UNCHANGED lockvars

\* User::is_active.
is_active(user_id) == ~users[user_id].deleted

\* ---------------------------------------------------------- wiki catalog
WikiNames == {"n1", "n2"}
WikiSlugs == {"s1", "s2", "s3"}
WikiDomains == {"d1", "d2"}
NoField == "none"       \* Option::None of an argument; a column not written

NoWikiReturn ==
    [op |-> "none", id |-> 0, name |-> NoField, slug |-> NoField,
     domain |-> NoField, result |-> ""]

\* What a catalog call returns; id is the row it wrote or addressed.
WikiReturn(op, id, name, slug, domain, result) ==
    [op |-> op, id |-> id, name |-> name, slug |-> slug, domain |-> domain,
     result |-> result]

\* The wiki_id sequence.
NextWikiId == Max(DOMAIN wikis \cup {0}) + 1

\* wikis has unique(slug) and unique(domain): the rows that stand against a
\* statement putting the value on row id (0: a new row).
SlugTaken(id, slug) == \E i \in DOMAIN wikis \ {id} : wikis[i].slug = slug

DomainTaken(id, domain) == \E i \in DOMAIN wikis \ {id} : wikis[i].domain = domain

\* WikiService::get_by_id: the map's entry, if any.
get_by_id(id) == IF id \in DOMAIN wikimap THEN {wikimap[id]} ELSE {}

\* WikiService::get_by_slug: the map's values with the slug.
get_by_slug(slug) == {wikimap[i] : i \in {j \in DOMAIN wikimap : wikimap[j].slug = slug}}

\* WikiService::create: the row is inserted.  The map is not written.
WikiCreate(name, slug) ==
    /\ IF SlugTaken(0, slug)
         THEN /\ wret' = WikiReturn("create", 0, name, slug, NoField, "Database")
              /\ UNCHANGED wikis
         ELSE /\ wikis' = wikis @@
                    (NextWikiId :> [name |-> name, slug |-> slug, domain |-> NoField])
              /\ wret' = WikiReturn("create", NextWikiId, name, slug, NoField, "Ok")
    /\ UNCHANGED <<users, pwcall, pwret, wikimap>>
    /\ UNCHANGED authvars
    /\ UNCHANGED pagevars
    /\ UNCHANGED lockvars

\* WikiService::edit: nothing to do with both arguments absent; else the
\* row with wiki_id is updated with the arguments present.  The map is not
\* written.
WikiEdit(id, name, slug) ==
    /\ IF (name = NoField /\ slug = NoField) \/ id \notin DOMAIN wikis
         THEN /\ wret' = WikiReturn("edit", id, name, slug, NoField, "Ok")
              /\ UNCHANGED wikis
         ELSE IF slug # NoField /\ SlugTaken(id, slug)
         THEN /\ wret' = WikiReturn("edit", id, name, slug, NoField, "Database")
              /\ UNCHANGED wikis
         ELSE /\ wikis' = [wikis EXCEPT
                    ![id].name = IF name # NoField THEN name ELSE @,
                    ![id].slug = IF slug # NoField THEN slug ELSE @]
              /\ wret' = WikiReturn("edit", id, name, slug, NoField, "Ok")
    /\ UNCHANGED <<users, pwcall, pwret, wikimap>>
    /\ UNCHANGED authvars
    /\ UNCHANGED pagevars
    /\ UNCHANGED lockvars

\* The edit(id, UpdateWiki { name, domain }) the facade calls: the row is
\* updated with the fields present, then the map's entry.
CatalogEdit(op, id, name, domain) ==
    /\ id \in DOMAIN wikis
    /\ IF domain # NoField /\ DomainTaken(id, domain)
         THEN /\ wret' = WikiReturn(op, id, name, NoField, domain, "WikiExists")
              /\ UNCHANGED <<wikis, wikimap>>
         ELSE /\ wikis' = [wikis EXCEPT
                    ![id].name = IF name # NoField THEN name ELSE @,
                    ![id].domain = IF domain # NoField THEN domain ELSE @]
              /\ wikimap' =
                    IF id \in DOMAIN wikimap
                        THEN [wikimap EXCEPT
                                ![id].name = IF name # NoField THEN name ELSE @,
                                ![id].domain = IF domain # NoField THEN domain ELSE @]
                        ELSE wikimap
              /\ wret' = WikiReturn(op, id, name, NoField, domain, "Ok")
    /\ UNCHANGED <<users, pwcall, pwret>>
    /\ UNCHANGED authvars
    /\ UNCHANGED pagevars
    /\ UNCHANGED lockvars

\* Server::rename_wiki.
RenameWiki(id, new_name) == CatalogEdit("rename_wiki", id, new_name, NoField)

\* Server::set_wiki_domain.
SetWikiDomain(id, new_domain) == CatalogEdit("set_wiki_domain", id, NoField, new_domain)

\* WikiService::new: the map holds the rows of the table; one wiki exists.
InitCatalog ==
    /\ wikis = (1 :> [name |-> "n1", slug |-> "s1", domain |-> "d1"])
    /\ wikimap = wikis
    /\ wret = NoWikiReturn

\* No user is deleted, no password manager call is in flight.
InitAdmin ==
    /\ users = [u \in Users |-> [deleted |-> FALSE]]
    /\ pwcall = [t \in Tasks |-> IdlePwCall]
    /\ pwret = NoPwReturn
    /\ InitCatalog

\* The services are constructed; every user has been created with its
\* password and nobody is logged in.
InitAuth ==
    /\ passwords = {new_password(u, Credentials[u], u) : u \in Users}
    /\ sessions = << >>
    /\ call = [t \in Tasks |-> IdleCall]
    /\ ret = NoReturn

\* ------------------------------------------- revision store, called directly
\* Slugs as a caller of the store may pass them: the normal ones and one
\* that is not in wikidot-normal form.
BadSlug == "Bad Slug"
RawSlugs == Slugs \cup {BadSlug}

\* wikidot_normalize::is_normal(slug, false).
is_normal(slug) == slug \in Slugs

\* check_normal: Ok, or the error "slug not in wikidot normal form".
check_normal(slug) == IF is_normal(slug) THEN "Ok" ELSE "SlugNotNormal"

\* The working directory can hold a file under any name.
RawTree == [s \in RawSlugs |-> NoContent]

NoStoreReturn == [op |-> "none", wiki_id |-> 0, slug |-> "", result |-> ""]

StoreReturn(op, wiki_id, slug, result) ==
    [op |-> op, wiki_id |-> wiki_id, slug |-> slug, result |-> result]

\* The frame of a direct store call: everything but the store and the
\* return.
StoreCallFrame ==
    /\ UNCHANGED <<pages, revisions, tag_history, task, last, rt>>
    /\ UNCHANGED authvars
    /\ UNCHANGED adminvars
    /\ UNCHANGED <<maplock, storelock, catlock, proc>>

\* RevisionStore::commit: write_file, then git commit -- slug.  The slug is
\* not tested.
RawCommit(w, slug, content) ==
    /\ stores' = [stores EXCEPT ![w] = StoreCommit(@, slug, content)]
    /\ sret' = StoreReturn("commit", w, slug, "Ok")
    /\ StoreCallFrame

\* RevisionStore::remove: remove_file, Ok(None) if there was no file, then
\* git commit -- slug.  The slug is not tested.
RawRemove(w, slug) ==
    /\ IF ~StoreRemoveFound(stores[w], slug)
         THEN /\ sret' = StoreReturn("remove", w, slug, "None")
              /\ UNCHANGED stores
         ELSE /\ stores' = [stores EXCEPT ![w] = StoreRemove(@, slug)]
              /\ sret' = StoreReturn("remove", w, slug, "Ok")
    /\ StoreCallFrame

\* RevisionStore::get_page: check_normal, then read_file.
RawGetPage(w, slug) ==
    /\ sret' = StoreReturn("get_page", w, slug,
                    IF check_normal(slug) # "Ok" THEN check_normal(slug)
                    ELSE StoreGetPage(stores[w], slug))
    /\ UNCHANGED stores
    /\ StoreCallFrame

\* RevisionStore::get_page_version: git show hash:slug.  The slug is not
\* tested.
RawGetPageVersion(w, slug, hash) ==
    /\ sret' = StoreReturn("get_page_version", w, slug,
                            get_page_version(stores[w], slug, hash))
    /\ UNCHANGED stores
    /\ StoreCallFrame

\* RevisionStore::rename: both slugs are checked, then the blob is moved.
RawRename(w, old_slug, new_slug) ==
    /\ IF check_normal(old_slug) # "Ok" \/ check_normal(new_slug) # "Ok"
         THEN /\ sret' = StoreReturn("rename", w,
                              IF check_normal(old_slug) # "Ok" THEN old_slug ELSE new_slug,
                              "SlugNotNormal")
              /\ UNCHANGED stores
         ELSE IF ~StoreRenameOk(stores[w], old_slug, new_slug)
         THEN /\ sret' = StoreReturn("rename", w, old_slug, "Store")
              /\ UNCHANGED stores
         ELSE /\ stores' = [stores EXCEPT ![w] = StoreRename(@, old_slug, new_slug)]
              /\ sret' = StoreReturn("rename", w, old_slug, "Ok")
    /\ StoreCallFrame

\* RevisionStore::restore: both slugs are checked, then the blob as of
\* at_hash is written and committed.
RawRestore(w, new_slug, old_slug, at_hash) ==
    /\ IF check_normal(new_slug) # "Ok" \/ check_normal(old_slug) # "Ok"
         THEN /\ sret' = StoreReturn("restore", w,
                              IF check_normal(new_slug) # "Ok" THEN new_slug ELSE old_slug,
                              "SlugNotNormal")
              /\ UNCHANGED stores
         ELSE IF ~StoreRestoreOk(stores[w], old_slug, at_hash)
         THEN /\ sret' = StoreReturn("restore", w, new_slug, "Store")
              /\ UNCHANGED stores
         ELSE /\ stores' = [stores EXCEPT ![w] =
                                StoreRestore(@, new_slug, old_slug, at_hash)]
              /\ sret' = StoreReturn("restore", w, new_slug, "Ok")
    /\ StoreCallFrame

\* ------------------------------------------------------------- locks
\* The locking of the facade, the page service and the store.  The rows and
\* blobs the operations write are modelled above; here an operation is the
\* sequence of its lock acquisitions and releases.
LockTasks == {1, 2, 3}
LockWikiIds == {1, 2}

\* A readers-writer lock: the task holding it for writing (0: none), the
\* tasks holding it for reading and the tasks waiting, first come first
\* served.  A mutex is such a lock taken only for writing.
FreeLock == [writer |-> 0, readers |-> {}, queue |-> << >>]

\* Task t asks for the lock.
Enqueue(l, t) == [l EXCEPT !.queue = Append(@, t)]

\* A lock that lets the task at the head of the queue in whoever holds it.
CanEnterUnlocked(l, t, mode) == l.queue # << >> /\ Head(l.queue) = t

\* The task at the head of the queue gets the lock for reading when no
\* writer holds it, for writing when nobody holds it.
CanEnter(l, t, mode) ==
    /\ l.queue # << >>
    /\ Head(l.queue) = t
    /\ l.writer = 0
    /\ mode = "write" => l.readers = {}

Enter(l, t, mode) ==
    [l EXCEPT !.queue = Tail(@),
              !.writer = IF mode = "write" THEN t ELSE @,
              !.readers = IF mode = "read" THEN @ \cup {t} ELSE @]

\* A guard that is dropped without releasing the lock.
LeaveKeepsLock(l, t) == l

\* The guard of task t is dropped.
Leave(l, t) ==
    [l EXCEPT !.writer = IF @ = t THEN 0 ELSE @, !.readers = @ \ {t}]

\* A task is idle or inside a call; wiki_id is the wiki the call is about,
\* mode what it does with the store, held whether its guard of the store
\* map lives until the call returns.  At "failed" the call has dropped its
\* guards and is returning the error in result.
IdleProc ==
    [pc |-> "idle", op |-> "none", wiki_id |-> 0, mode |-> "none", held |-> FALSE,
     result |-> ""]

\* The call of task t fails with the error.
Fails(t, error) == [proc EXCEPT ![t].pc = "failed", ![t].result = error]

\* The page operations by their locking: commit (and create) use the store
\* inside raw_commit, whose guard is dropped when it returns; tags (and
\* rename, remove, restore) keep the guard to the end of the transaction;
\* get_page_contents reads.
PageCalls ==
    {[IdleProc EXCEPT !.pc = "map_wait", !.op = "commit", !.mode = "write"],
     [IdleProc EXCEPT !.pc = "map_wait", !.op = "tags", !.mode = "write", !.held = TRUE],
     [IdleProc EXCEPT !.pc = "map_wait", !.op = "get_page_contents", !.mode = "read"]}

\* What the frame of a step of this section leaves alone.
LockFrame ==
    /\ UNCHANGED <<pages, revisions, tag_history, task, last, rt>>
    /\ UNCHANGED authvars
    /\ UNCHANGED <<users, pwcall, pwret, wret, sret>>

\* A page operation is called: it asks for the store map (self.store).
PageCall(t, c, w) ==
    /\ proc[t].pc = "idle"
    /\ proc' = [proc EXCEPT ![t] = [c EXCEPT !.wiki_id = w]]
    /\ maplock' = Enqueue(maplock, t)
    /\ UNCHANGED <<stores, storelock, catlock, wikis, wikimap>>
    /\ LockFrame

\* self.store(wiki_id) returns the read guard; guard.get() fails with
\* WikiNotFound when the map has no store for the wiki, else the operation
\* calls the store, which asks for its lock.
MapEnter(t) ==
    LET w == proc[t].wiki_id
    IN  /\ proc[t].pc = "map_wait"
        /\ proc[t].op \in {c.op : c \in PageCalls}
        /\ CanEnter(maplock, t, "read")
        /\ IF w \notin DOMAIN stores
             THEN /\ maplock' = Leave(Enter(maplock, t, "read"), t)
                  /\ proc' = Fails(t, "WikiNotFound")
                  /\ UNCHANGED storelock
             ELSE /\ maplock' = Enter(maplock, t, "read")
                  /\ proc' = [proc EXCEPT ![t].pc = "store_wait"]
                  /\ storelock' = [storelock EXCEPT ![w] = Enqueue(@, t)]
        /\ UNCHANGED <<stores, catlock, wikis, wikimap>>
        /\ LockFrame

\* The store operation gets the store's lock: self.lock.write() in the
\* operations that commit, self.lock.read() in those that read.
StoreEnter(t) ==
    LET w == proc[t].wiki_id
    IN  /\ proc[t].pc = "store_wait"
        /\ CanEnter(storelock[w], t, proc[t].mode)
        /\ storelock' = [storelock EXCEPT ![w] = Enter(@, t, proc[t].mode)]
        /\ proc' = [proc EXCEPT ![t].pc = "cs"]
        /\ UNCHANGED <<stores, maplock, catlock, wikis, wikimap>>
        /\ LockFrame

\* The store operation returns and its lock guard is dropped.  A read
\* returns to the caller; raw_commit drops the guard of the store map; the
\* other operations keep it and go on to their inserts.
StoreLeave(t) ==
    LET w == proc[t].wiki_id
    IN  /\ proc[t].pc = "cs"
        /\ proc[t].op \in {c.op : c \in PageCalls}
        /\ storelock' = [storelock EXCEPT ![w] = Leave(@, t)]
        /\ maplock' = IF proc[t].held THEN maplock ELSE Leave(maplock, t)
        /\ proc' = [proc EXCEPT ![t] =
                        IF proc[t].mode = "read" THEN IdleProc ELSE [@ EXCEPT !.pc = "db"]]
        /\ UNCHANGED <<stores, catlock, wikis, wikimap>>
        /\ LockFrame

\* The operation inserts its rows, its transaction commits and it returns;
\* the guard of the store map, if still there, is dropped.
PageReturn(t) ==
    /\ proc[t].pc = "db"
    /\ maplock' = Leave(maplock, t)
    /\ proc' = [proc EXCEPT ![t] = IdleProc]
    /\ UNCHANGED <<stores, storelock, catlock, wikis, wikimap>>
    /\ LockFrame

\* Server::get_wiki is called: get_by_id asks for the catalog's lock.
GetWikiCall(t, id) ==
    /\ proc[t].pc = "idle"
    /\ proc' = [proc EXCEPT ![t] =
                    [IdleProc EXCEPT !.pc = "cat_wait", !.op = "get_wiki", !.wiki_id = id]]
    /\ catlock' = Enqueue(catlock, t)
    /\ UNCHANGED <<stores, maplock, storelock, wikis, wikimap>>
    /\ LockFrame

\* get_by_id runs its callback under the lock and returns the wiki, or
\* WikiNotFound.
GetWiki(t) ==
    /\ proc[t].pc = "cat_wait"
    /\ proc[t].op = "get_wiki"
    /\ CanEnter(catlock, t, "write")
    /\ catlock' = Leave(Enter(catlock, t, "write"), t)
    /\ proc' = IF get_by_id(proc[t].wiki_id) = {} THEN Fails(t, "WikiNotFound")
                ELSE [proc EXCEPT ![t] = IdleProc]
    /\ UNCHANGED <<stores, maplock, storelock, wikis, wikimap>>
    /\ LockFrame

\* Server::create_wiki is called: the catalog's create asks for its lock.
CreateWikiCall(t) ==
    /\ proc[t].pc = "idle"
    /\ proc' = [proc EXCEPT ![t] =
                    [IdleProc EXCEPT !.pc = "cat_wait", !.op = "create_wiki",
                                     !.mode = "write"]]
    /\ catlock' = Enqueue(catlock, t)
    /\ UNCHANGED <<stores, maplock, storelock, wikis, wikimap>>
    /\ LockFrame

\* self.wiki.create(name, slug, domain): the row is inserted, the wiki put
\* into the map and the guard of the map returned to create_wiki, which
\* keeps it; WikiExists if slug or domain collide.  add_store then makes the
\* directory and the store, whose initial_commit takes the store's lock.
CatalogCreate(t, name, slug, domain) ==
    LET id == NextWikiId
        wiki == [name |-> name, slug |-> slug, domain |-> domain]
    IN  /\ proc[t].pc = "cat_wait"
        /\ proc[t].op = "create_wiki"
        /\ CanEnter(catlock, t, "write")
        /\ IF SlugTaken(0, slug) \/ DomainTaken(0, domain)
             THEN /\ catlock' = Leave(Enter(catlock, t, "write"), t)
                  /\ proc' = Fails(t, "WikiExists")
                  /\ UNCHANGED <<wikis, wikimap, storelock>>
             ELSE /\ catlock' = Enter(catlock, t, "write")
                  /\ wikis' = wikis @@ (id :> wiki)
                  /\ wikimap' = wikimap @@ (id :> wiki)
                  /\ proc' = [proc EXCEPT ![t].pc = "cs", ![t].wiki_id = id]
                  /\ storelock' = [storelock EXCEPT ![id] = Enter(Enqueue(@, t), t, "write")]
        /\ UNCHANGED <<stores, maplock>>
        /\ LockFrame

\* add_store, first half: create_dir or initial_commit fails, create_wiki
\* passes the error on and drops the guard of the catalog; or both succeed
\* and add_store asks for the store map to write it.
InitialCommit(t) ==
    LET w == proc[t].wiki_id
    IN  /\ proc[t].pc = "cs"
        /\ proc[t].op = "create_wiki"
        /\ storelock' = [storelock EXCEPT ![w] = Leave(@, t)]
        /\ \/ /\ proc' = [proc EXCEPT ![t].pc = "map_wait"]
              /\ maplock' = Enqueue(maplock, t)
              /\ UNCHANGED catlock
           \/ /\ proc' = Fails(t, "Io")
              /\ catlock' = Leave(catlock, t)
              /\ UNCHANGED maplock
        /\ UNCHANGED <<stores, wikis, wikimap>>
        /\ LockFrame

\* add_store, second half: under the write guard the store is inserted
\* into the map; create_wiki returns the id and drops its guards.
AddStore(t) ==
    LET w == proc[t].wiki_id
    IN  /\ proc[t].pc = "map_wait"
        /\ proc[t].op = "create_wiki"
        /\ CanEnter(maplock, t, "write")
        /\ maplock' = Leave(Enter(maplock, t, "write"), t)
        /\ stores' = (w :> initial_commit) @@ stores
        /\ catlock' = Leave(catlock, t)
        /\ proc' = [proc EXCEPT ![t] = IdleProc]
        /\ UNCHANGED <<storelock, wikis, wikimap>>
        /\ LockFrame

\* A call that failed returns its error to the caller.
ReturnError(t) ==
    /\ proc[t].pc = "failed"
    /\ proc' = [proc EXCEPT ![t] = IdleProc]
    /\ UNCHANGED <<stores, maplock, storelock, catlock, wikis, wikimap>>
    /\ LockFrame

\* No call of this section is in flight and no lock is held.
InitLocks ==
    /\ maplock = FreeLock
    /\ storelock = [w \in LockWikiIds |-> FreeLock]
    /\ catlock = FreeLock
    /\ proc = [t \in LockTasks |-> IdleProc]
    /\ sret = NoStoreReturn

\* ------------------------------------------------------- specifications
\* The page service is constructed: no page, a store per wiki.
InitPages(watch) ==
    /\ pages = << >>
    /\ revisions = << >>
    /\ tag_history = << >>
    /\ stores = [w \in Wikis |-> initial_commit]
    /\ task = [t \in Tasks |-> IdleTask]
    /\ last = IdleTask
    /\ rt = [RtOff EXCEPT !.phase = watch]

InitWith(watch) ==
    /\ InitPages(watch)
    /\ InitAuth
    /\ InitAdmin
    /\ InitLocks

\* Room for one more revision row, counting the operations in flight, and
\* for one more value of the page_id sequence.
Room(cap) ==
    /\ Len(revisions) + Cardinality({u \in Tasks : InFlight(u)}) < cap
    /\ NextPageId <= cap

\* Two tasks call operations on one wiki at any time; the operations
\* interleave at their suspension points and may fail or be cancelled.
Init == InitWith("unused")

Next ==
    \E t \in Tasks :
        \/ \E s \in Slugs : Room(MaxRevs) /\ Create(t, 1, s, "x")
        \/ \E s \in Slugs, c \in {"x", NoContent} : Room(MaxRevs) /\ Commit(t, 1, s, c)
        \/ \E s \in Slugs, n \in Slugs : Room(MaxRevs) /\ Rename(t, 1, s, n)
        \/ \E s \in Slugs : Room(MaxRevs) /\ Remove(t, 1, s)
        \/ \E s \in Slugs : Room(MaxRevs) /\ Restore(t, 1, s, NoPage)
        \/ \E s \in Slugs, g \in TagInputs : Room(MaxRevs) /\ Tags(t, 1, s, g)
        \/ StoreStep(t, MaxCommits)
        \/ Finish(t)
        \/ DbFail(t)
        \/ Cancel(t)

Spec == Init /\ [][Next]_vars

\* One caller, one operation after the other, on two wikis; no operation
\* fails for an outside reason.
InitSeq == InitWith("unused")

NextSeq ==
    \/ \E w \in Wikis, s \in Slugs, c \in Contents :
            Room(SeqRevs) /\ Create(1, w, s, c)
    \/ \E w \in Wikis, s \in Slugs, c \in Contents \cup {NoContent} :
            Room(SeqRevs) /\ Commit(1, w, s, c)
    \/ \E w \in Wikis, s \in Slugs, n \in Slugs : Room(SeqRevs) /\ Rename(1, w, s, n)
    \/ \E w \in Wikis, s \in Slugs : Room(SeqRevs) /\ Remove(1, w, s)
    \/ \E w \in Wikis, s \in Slugs, p \in {NoPage} \cup DOMAIN pages :
            Room(SeqRevs) /\ Restore(1, w, s, p)
    \/ \E w \in Wikis, s \in Slugs, g \in TagInputs : Room(SeqRevs) /\ Tags(1, w, s, g)
    \/ StoreStep(1, SeqCommits)
    \/ Finish(1)

SpecSeq == InitSeq /\ [][NextSeq]_vars

\* One caller on one wiki creates, edits, renames, removes and restores
\* pages; the round trips are observed.
InitTrip == InitWith("off")

NextTrip ==
    \/ \E s \in Slugs, c \in Contents : Room(TripRevs) /\ Create(1, 1, s, c)
    \/ \E s \in Slugs, c \in Contents : Room(TripRevs) /\ Commit(1, 1, s, c)
    \/ \E s \in Slugs, n \in Slugs : Room(TripRevs) /\ Rename(1, 1, s, n)
    \/ \E s \in Slugs : Room(TripRevs) /\ Remove(1, 1, s)
    \/ \E s \in Slugs : Room(TripRevs) /\ Restore(1, 1, s, NoPage)
    \/ StoreStep(1, TripRevs + 1)
    \/ Finish(1)

SpecTrip == InitTrip /\ [][NextTrip]_vars

\* Two tasks log users in and out at any time.
InitSession == InitWith("unused")

NextSession ==
    \E t \in Tasks :
        \/ \E u \in Users, p \in PasswordInputs, a \in Addresses : CreateSession(t, u, p, a)
        \/ CheckPassword(t)
        \/ PasswordPause(t)
        \/ IssueToken(t)
        \/ CreateToken(t)
        \/ \E u \in Users : EndSession(t, u)

SpecSession == InitSession /\ [][NextSession]_vars

\* One caller sets and checks passwords.  User 1 has no password yet; the
\* row of user 2 is any row the table may hold.
InitPassword ==
    /\ InitPages("unused")
    /\ passwords \in {{row} : row \in StoredRows(2)}
    /\ sessions = << >>
    /\ call = [t \in Tasks |-> IdleCall]
    /\ ret = NoReturn
    /\ InitAdmin
    /\ InitLocks

NextPassword ==
    \/ \E u \in Users, p \in AllPasswords : Set(1, u, p)
    \/ \E u \in Users, p \in AllPasswords : Check(1, u, p)
    \/ CheckInternal(1)
    \/ CheckPause(1)

SpecPassword == InitPassword /\ [][NextPassword]_vars

\* One caller logs users in and out while users are deleted and undeleted.
InitUsers == InitWith("unused")

NextUsers ==
    \/ \E u \in Users, p \in PasswordInputs, a \in Addresses : CreateSession(1, u, p, a)
    \/ CheckPassword(1)
    \/ PasswordPause(1)
    \/ IssueToken(1)
    \/ CreateToken(1)
    \/ \E u \in Users : EndSession(1, u)
    \/ \E u \in Users : SoftDelete(u)
    \/ \E u \in Users : Undelete(u)

SpecUsers == InitUsers /\ [][NextUsers]_vars

\* Wikis are created and edited through the catalog and the facade.
InitWikis == InitWith("unused")

NextWikis ==
    \/ \E n \in WikiNames, s \in WikiSlugs :
            Cardinality(DOMAIN wikis) < MaxWikis /\ WikiCreate(n, s)
    \/ \E i \in 1..MaxWikis, n \in WikiNames \cup {NoField}, s \in WikiSlugs \cup {NoField} :
            WikiEdit(i, n, s)
    \/ \E i \in 1..MaxWikis, n \in WikiNames : RenameWiki(i, n)
    \/ \E i \in 1..MaxWikis, d \in WikiDomains : SetWikiDomain(i, d)

SpecWikis == InitWikis /\ [][NextWikis]_vars

\* One caller calls the operations of one store directly, with slugs in
\* normal form and not.
InitStore ==
    /\ pages = << >>
    /\ revisions = << >>
    /\ tag_history = << >>
    /\ stores = [w \in Wikis |-> [files |-> RawTree, commits |-> <<RawTree>>]]
    /\ task = [t \in Tasks |-> IdleTask]
    /\ last = IdleTask
    /\ rt = [RtOff EXCEPT !.phase = "unused"]
    /\ InitAuth
    /\ InitAdmin
    /\ InitLocks

NextStore ==
    \/ \E slug \in RawSlugs, c \in Contents :
            Len(stores[1].commits) < StoreCommits /\ RawCommit(1, slug, c)
    \/ \E slug \in RawSlugs :
            Len(stores[1].commits) < StoreCommits /\ RawRemove(1, slug)
    \/ \E slug \in RawSlugs : RawGetPage(1, slug)
    \/ \E slug \in RawSlugs, h \in 1..StoreCommits : RawGetPageVersion(1, slug, <<1, h>>)
    \/ \E o \in RawSlugs, n \in RawSlugs :
            Len(stores[1].commits) < StoreCommits /\ RawRename(1, o, n)
    \/ \E n \in RawSlugs, o \in RawSlugs, h \in 1..StoreCommits :
            Len(stores[1].commits) < StoreCommits /\ RawRestore(1, n, o, <<1, h>>)

SpecStore == InitStore /\ [][NextStore]_vars

\* Three tasks call page operations, get_wiki and create_wiki at any time.
\* Wiki 1 was created before: it is in the catalog and has its store.
InitLocking ==
    /\ pages = << >>
    /\ revisions = << >>
    /\ tag_history = << >>
    /\ stores = (1 :> initial_commit)
    /\ task = [t \in Tasks |-> IdleTask]
    /\ last = IdleTask
    /\ rt = [RtOff EXCEPT !.phase = "unused"]
    /\ InitAuth
    /\ InitAdmin
    /\ InitLocks

\* Room for one more row of the wikis table, counting the create_wiki calls
\* that have not inserted theirs yet.
WikiRoom ==
    Cardinality(DOMAIN wikis)
        + Cardinality({u \in LockTasks :
                          proc[u].op = "create_wiki" /\ proc[u].pc = "cat_wait"})
        < Cardinality(LockWikiIds)

\* The steps of the call of task t once it is made.
Proceed(t) ==
    \/ MapEnter(t)
    \/ StoreEnter(t)
    \/ StoreLeave(t)
    \/ PageReturn(t)
    \/ GetWiki(t)
    \/ \E slug \in {"s1", "s2"} : CatalogCreate(t, "n2", slug, "d2")
    \/ InitialCommit(t)
    \/ AddStore(t)
    \/ ReturnError(t)

NextLocking ==
    \E t \in LockTasks :
        \/ \E c \in PageCalls, w \in LockWikiIds : PageCall(t, c, w)
        \/ GetWikiCall(t, 2)
        \/ WikiRoom /\ CreateWikiCall(t)
        \/ Proceed(t)

SpecLocking == InitLocking /\ [][NextLocking]_vars

\* The same with a fair scheduler: a call that can take its next step does
\* not wait forever.
SpecLockingFair == SpecLocking /\ \A t \in LockTasks : WF_vars(Proceed(t))

\* One caller on one wiki runs the six page operations one after the other
\* and edits revision messages, of rows that exist and of rows that do not.
InitEdit == InitWith("unused")

NextEdit ==
    \/ \E s \in Slugs : Room(EditRevs) /\ Create(1, 1, s, "x")
    \/ \E s \in Slugs : Room(EditRevs) /\ Commit(1, 1, s, "y")
    \/ \E s \in Slugs, n \in Slugs : Room(EditRevs) /\ Rename(1, 1, s, n)
    \/ \E s \in Slugs : Room(EditRevs) /\ Remove(1, 1, s)
    \/ \E s \in Slugs : Room(EditRevs) /\ Restore(1, 1, s, NoPage)
    \/ \E s \in Slugs, g \in TagInputs : Room(EditRevs) /\ Tags(1, 1, s, g)
    \/ StoreStep(1, EditRevs + 1)
    \/ Finish(1)
    \/ \E i \in 1..EditRevs, m \in Messages : EditRevision(i, m)

SpecEdit == InitEdit /\ [][NextEdit]_vars

\* --------------------------------------------------------------- claims
AllIdle == \A t \in Tasks : ~InFlight(t)

LastRevision == revisions[Len(revisions)]

\* What remove(wiki_id, slug) returns when it resolves the slug to row p.
RemoveResult(p, wiki_id, slug) ==
    IF FindCheck(wiki_id, slug) # "Ok" THEN FindCheck(wiki_id, slug)
    ELSE IF ~StoreRemoveFound(stores[wiki_id], slug) THEN StoreError("remove")
    ELSE "Ok"

\* What rename(wiki_id, old_slug, new_slug) returns when it resolves
\* old_slug to row p.
RenameResult(t, p, wiki_id, old_slug, new_slug) ==
    IF RenameCheck(t, p, wiki_id, new_slug) # "Ok" THEN RenameCheck(t, p, wiki_id, new_slug)
    ELSE IF ~StoreRenameOk(stores[wiki_id], old_slug, new_slug) THEN StoreError("rename")
    ELSE "Ok"

\* C1: in every reachable state each (wiki_id, slug) has at most one page
\* row with deleted_at null.
C1_OneLivePagePerSlug ==
    \A w \in Wikis, s \in Slugs : Cardinality(get_page(w, s)) <= 1

\* C1 witness: the unique index has work to do: a task has inserted a page
\* under a slug and another task could create a page under the same slug,
\* or a live page could be renamed onto the slug of another live page.
C1_Witness ==
    \/ \E t \in Tasks, s \in Slugs :
            CreateCheck(1, s) = "Ok" /\ UniqueIndex(t, NoPage, 1, s) = "wait"
    \/ \E p \in DOMAIN pages, s \in Slugs :
            ~pages[p].deleted /\ UniqueIndex(1, p, pages[p].wiki_id, s) = "fail"

\* C2: whenever no operation is in flight, the slugs of the live pages of
\* a wiki are the blob names at the head of the wiki's store.
LiveSlugs(w) == {s \in Slugs : get_page(w, s) # {}}
HeadBlobs(w) == {s \in Slugs : stores[w].commits[Len(stores[w].commits)][s] # NoContent}

C2_CatalogMatchesStore == AllIdle => \A w \in Wikis : LiveSlugs(w) = HeadBlobs(w)

\* C3: commit, rename, remove and tags addressed to a slug held by deleted
\* pages only never return Ok (they fail and record no revision).
C3_DeletedPageRefusesWrites ==
    ~(last.op \in {"commit", "rename", "remove", "tags"} /\ last.dead)

\* C4: right after remove returned Ok for a slug with a live page, that
\* page has deleted_at set, get_page and get_page_contents yield nothing,
\* the newest revision is the Delete of that page, and another remove of
\* the slug returns PageNotFound.
C4_RemoveDeletes ==
    (AllIdle /\ last.op = "remove" /\ last.live # NoPage /\ LastRevision.git_commit = last.hash)
        => /\ pages[last.live].deleted
           /\ get_page(last.wiki_id, last.slug) = {}
           /\ get_page_contents(last.wiki_id, last.slug) = NoContent
           /\ LastRevision.page_id = last.live
           /\ LastRevision.change_type = "Delete"
           /\ \A p \in get_page_id(last.wiki_id, last.slug) :
                RemoveResult(p, last.wiki_id, last.slug) = "PageNotFound"

\* C5: right after restore (without page_id) returned Ok, the restored page
\* has deleted_at null, get_page yields it, the newest revision is its
\* Restore, and another restore of the slug returns PageExists.
C5_RestoreRevives ==
    (AllIdle /\ last.op = "restore" /\ last.page_id = NoPage
            /\ LastRevision.git_commit = last.hash)
        => /\ ~pages[last.pid].deleted
           /\ get_page(last.wiki_id, last.slug) = {last.pid}
           /\ LastRevision.page_id = last.pid
           /\ LastRevision.change_type = "Restore"
           /\ RestoreCheck(last.wiki_id, last.slug, NoPage) = "PageExists"

\* C6: when create, then remove, then restore of a slug have returned Ok,
\* with only commits, renames and tags in between create and remove, the
\* content at the slug is the last content written to it.
C6_RoundTrip ==
    (AllIdle /\ rt.phase = "restored")
        => get_page_contents(rt.wiki_id, rt.slug) = rt.content

\* C7: create returns PageExists exactly when a page with deleted_at null
\* holds the slug in the wiki.
C7_CreateExistsIffLive ==
    \A w \in Wikis, s \in Slugs :
        CreateCheck(w, s) = "PageExists" <=> get_page(w, s) # {}

\* C8: rename onto a slug that another live page of the wiki holds returns
\* PageExists.
C8_RenameOntoLivePage ==
    \A w \in Wikis, o \in Slugs, n \in Slugs :
        (o # n /\ get_page(w, o) # {} /\ get_page(w, n) # {})
            => \A p \in get_page_id(w, o) : RenameResult(1, p, w, o, n) = "PageExists"

\* C9: right after rename returned Ok, get_page yields nothing at old_slug
\* and the same page at new_slug, the blob at new_slug is the one old_slug
\* had, and the newest revision is the Rename of that page.
C9_RenameMoves ==
    (AllIdle /\ last.op = "rename" /\ LastRevision.git_commit = last.hash)
        => /\ get_page(last.wiki_id, last.slug) = {}
           /\ get_page(last.wiki_id, last.new_slug) = {last.pid}
           /\ last.live = last.pid
           /\ get_page_contents(last.wiki_id, last.new_slug) =
                get_page_version(stores[last.wiki_id], last.slug,
                                 <<last.wiki_id, last.hash[2] - 1>>)
           /\ LastRevision.page_id = last.pid
           /\ LastRevision.change_type = "Rename"

\* C10: the tables pages, revisions and tag_history change only in the
\* step in which an operation returns Ok; an operation that returns an
\* error or is cancelled, before or after its store commit, leaves them
\* as they were.
C10_ErrorsLeaveTables ==
    [][last' = last => UNCHANGED <<pages, revisions, tag_history>>]_vars

\* C10 witness: an operation failed after its store commit: the store
\* holds a commit that no revision row names.
C10_Witness ==
    /\ AllIdle
    /\ \E n \in 2..Len(stores[1].commits) :
            \A i \in 1..Len(revisions) : revisions[i].git_commit # <<1, n>>

\* C11: the revisions of a page, in the order of their revision_id, name
\* commits in the order in which they lie on the history of the store.
C11_RevisionsFollowCommits ==
    \A i \in 1..Len(revisions), j \in 1..Len(revisions) :
        (i < j /\ revisions[i].page_id = revisions[j].page_id)
            => revisions[i].git_commit[2] < revisions[j].git_commit[2]

\* C12: the git_commit of every revision row names a commit of the store
\* of the wiki that owns the revision's page.
C12_RevisionCommitExists ==
    \A i \in 1..Len(revisions) :
        LET w == pages[revisions[i].page_id].wiki_id
        IN  /\ revisions[i].git_commit[1] = w
            /\ revisions[i].git_commit[2] \in 1..Len(stores[w].commits)

\* C12 witness: a restore that names a page of another wiki than the one
\* it was called for has recorded its revision.
C12_Witness ==
    /\ AllIdle
    /\ last.op = "restore"
    /\ last.wiki_id # last.swiki
    /\ LastRevision.git_commit = last.hash

\* C13: when create or commit with content returns Ok, the blob at the slug
\* as of the revision's commit is the content supplied; and no step changes
\* the blob of any slug as of any commit there is, so it stays the content
\* supplied whatever is done afterwards.
C13_VersionKeepsContent ==
    [][/\ \A w \in Wikis, s \in Slugs : \A i \in 1..Len(stores[w].commits) :
            get_page_version(stores'[w], s, <<w, i>>) = get_page_version(stores[w], s, <<w, i>>)
       /\ (last' # last /\ last'.op \in {"create", "commit"} /\ last'.content # NoContent)
            => get_page_version(stores'[last'.wiki_id], last'.slug, last'.hash)
                    = last'.content]_vars

\* C13 witness: a Create or Modify revision names a commit that holds
\* content at a slug where the store now holds something else.
C13_Witness ==
    \E i \in 1..Len(revisions), s \in Slugs :
        LET h == revisions[i].git_commit
        IN  /\ revisions[i].change_type \in {"Create", "Modify"}
            /\ get_page_version(stores[h[1]], s, h) \in Contents
            /\ get_page_contents(h[1], s) # get_page_version(stores[h[1]], s, h)

IsSorted(seq) == \A i \in 1..Len(seq), j \in 1..Len(seq) : i < j => seq[i] <= seq[j]

IsStrictlySorted(seq) == \A i \in 1..Len(seq), j \in 1..Len(seq) : i < j => seq[i] < seq[j]

\* C14: when tags was the last operation to return Ok, the tags of the
\* page it was addressed to (the row it resolved, and the live page at the
\* slug) are in ascending order and are, as a set, the tags that were passed.
C14_TagsSortedAndReplaced ==
    last.op = "tags"
        => \A p \in {last.pid, last.live} \ {NoPage} :
                /\ IsSorted(pages[p].tags)
                /\ Range(pages[p].tags) = Range(last.tags)

\* C14 witness: tags with an unsorted list has returned Ok, and so has
\* tags with the empty list on a page that had tags.
C14_Witness ==
    \/ last.op = "tags" /\ last.tags = <<2, 1>>
    \/ last.op = "tags" /\ last.tags = << >> /\ last.cur_tags # << >>

\* C15: the tag_history row that a tags operation writes has added_tags =
\* new tags minus the tags the page had, removed_tags = the tags the page
\* had minus the new tags; the two are disjoint, sorted, without duplicates.
C15_TagHistoryIsDifference ==
    [][(last' # last /\ last'.op = "tags")
        => LET row == tag_history'[Len(revisions')]
               old == Range(pages[last'.pid].tags)
               new == Range(last'.tags)
           IN  /\ Range(row.added_tags) = new \ old
               /\ Range(row.removed_tags) = old \ new
               /\ Range(row.added_tags) \cap Range(row.removed_tags) = {}
               /\ IsStrictlySorted(row.added_tags)
               /\ IsStrictlySorted(row.removed_tags)]_vars

\* C15 witness: tag_history holds a row that adds tags and a row that
\* removes tags.
C15_Witness ==
    /\ \E i \in DOMAIN tag_history : Len(tag_history[i].added_tags) = 2
    /\ \E i \in DOMAIN tag_history : Len(tag_history[i].removed_tags) = 2

\* C16: a tag_history row exists for exactly the revisions whose
\* change_type is Tags.
C16_TagHistoryIffTags ==
    DOMAIN tag_history = {i \in 1..Len(revisions) : revisions[i].change_type = "Tags"}

\* C16 witness: the tables hold a Tags revision and a revision of another
\* change type.
C16_Witness ==
    /\ \E i \in 1..Len(revisions) : revisions[i].change_type = "Tags"
    /\ \E i \in 1..Len(revisions) : revisions[i].change_type \notin {"Tags", "Create"}

\* C17: a create_session call with a password that is not the user's never
\* changes the sessions table, in any of its steps, and what it returns is
\* the error AuthenticationFailed, never a token.
C17_FailedLoginYieldsNothing ==
    [][\A t \in Tasks :
        LET c == IF call[t].pc = "idle" THEN call'[t] ELSE call[t]
        IN  (call'[t] # call[t] /\ c.password # Credentials[c.user_id])
                => /\ sessions' = sessions
                   /\ call'[t].pc = "idle"
                        => ret' = [op |-> "create_session", user_id |-> c.user_id,
                                   password |-> c.password, ip_address |-> c.ip_address,
                                   result |-> "AuthenticationFailed"]]_vars

\* C17 witness: create_session with a wrong password has returned its
\* error, for a user without a session and for a user with one.
C17_Witness ==
    /\ ret.op = "create_session"
    /\ ret.result = "AuthenticationFailed"
    /\ get_session(ret.user_id) = {}
    /\ \E u \in Users : get_session(u) # {}

\* C18: when create_session was the last call to return and returned token
\* T, check_token accepts T and no other token for the user, and
\* get_session yields the session of the user with T and the ip_address of
\* the call.
C18_SessionAfterLogin ==
    (ret.op = "create_session" /\ ret.result \in Tokens)
        => /\ check_token(ret.user_id, ret.result) = "Ok"
           /\ \A other \in Tokens \ {ret.result} :
                check_token(ret.user_id, other) = "AuthenticationFailed"
           /\ get_session(ret.user_id) =
                {[user_id |-> ret.user_id, token |-> ret.result,
                  ip_address |-> ret.ip_address]}

\* C19: end_session returns true exactly when the user had a session row;
\* once it has returned, get_session yields nothing, check_token fails for
\* every token, and revoke_token finds no row of the user.
C19_EndSessionRevokes ==
    [][(ret' # ret /\ ret'.op = "end_session")
        => /\ ret'.result = "true" <=> get_session(ret'.user_id) # {}
           /\ ret'.user_id \notin DOMAIN sessions'
           /\ \A u \in Users \ {ret'.user_id} : u \in DOMAIN sessions' <=> u \in DOMAIN sessions
           /\ \A token \in Tokens :
                ~(ret'.user_id \in DOMAIN sessions' /\ sessions'[ret'.user_id].token = token)]_vars

\* C19 witness: end_session has returned true for a user, while another
\* user has a session.
C19_Witness ==
    /\ ret.op = "end_session"
    /\ ret.result = "true"
    /\ \E u \in Users : get_session(u) # {}

\* C20: when create_session returns a token for a user who has a session
\* already, the session of the user carries, from then on, the ip_address
\* of the call and the token returned.
C20_ReloginOverwrites ==
    [][(ret' # ret /\ ret'.op = "create_session" /\ ret'.result \in Tokens
            /\ get_session(ret'.user_id) # {})
        => /\ sessions'[ret'.user_id].ip_address = ret'.ip_address
           /\ sessions'[ret'.user_id].token = ret'.result]_vars

\* A step in which PasswordManager::set returns.
SetReturns == pwcall' = pwcall /\ pwret'.op = "set"

\* A step in which PasswordManager::check of task t returns.
CheckReturns(t) == pwcall[t].pc # "idle" /\ pwcall'[t].pc = "idle"

PolicyErrors ==
    {"NewPasswordInvalid: password too long",
     "NewPasswordInvalid: password must be at least 8 characters",
     "NewPasswordInvalid: password is too common"}

\* C21: set fails with "password too long" for a password of more than 8192
\* bytes, else with "password must be at least 8 characters" for one of
\* fewer than 8 characters, else with "password is too common" for one in
\* the blacklist; in each case the passwords table is unchanged.  A
\* password that passes the three tests is never refused by the policy, and
\* when set returns Ok the user's row holds its hash.
C21_SetPolicy ==
    [][SetReturns =>
        LET pw == pwret'.password
            long == ByteLen(pw) > MAX_PASSWORD_LEN
            few == CharCount(pw) < 8
            common == pw \in Blacklist
        IN  /\ long => /\ pwret'.result = "NewPasswordInvalid: password too long"
                       /\ passwords' = passwords
            /\ (~long /\ few) =>
                    /\ pwret'.result =
                            "NewPasswordInvalid: password must be at least 8 characters"
                    /\ passwords' = passwords
            /\ (~long /\ ~few /\ common) =>
                    /\ pwret'.result = "NewPasswordInvalid: password is too common"
                    /\ passwords' = passwords
            /\ (~long /\ ~few /\ ~common) =>
                    /\ pwret'.result \notin PolicyErrors
                    /\ pwret'.result = "Ok" =>
                        \E row \in passwords' :
                            /\ row.user_id = pwret'.user_id
                            /\ check_password(row, pw)]_vars

\* C21 witness: set has refused a blacklisted password of fewer than 8
\* characters for a user who has a password row.
C21_Witness ==
    /\ pwret.op = "set"
    /\ pwret.password \in Blacklist
    /\ CharCount(pwret.password) < 8
    /\ pwret.result \in PolicyErrors
    /\ FindPassword(pwret.user_id) # {}

\* C21 as stated: each of the three conditions, taken alone, names the
\* error of set, so a blacklisted password is refused as too common whatever
\* its length.
C21_SetPolicyAsStated ==
    [][SetReturns =>
        LET pw == pwret'.password
        IN  /\ ByteLen(pw) > MAX_PASSWORD_LEN =>
                    pwret'.result = "NewPasswordInvalid: password too long"
            /\ CharCount(pw) < 8 =>
                    pwret'.result =
                        "NewPasswordInvalid: password must be at least 8 characters"
            /\ pw \in Blacklist =>
                    pwret'.result = "NewPasswordInvalid: password is too common"
            /\ pwret'.result \in PolicyErrors => passwords' = passwords]_vars

\* C22: the passwords table changes only when set returns Ok; after that
\* return check_internal accepts, for the user, the password just set and
\* no other; for a user without a row it fails with AuthenticationFailed
\* for every password; no user ever has two rows.
C22_CheckMatchesLastSet ==
    [][/\ passwords' # passwords => (SetReturns /\ pwret'.result = "Ok")
       /\ (SetReturns /\ pwret'.result = "Ok") =>
            \A u \in Users, p \in AllPasswords :
                u = pwret'.user_id =>
                    ((check_internal(u, p))' = "Ok" <=> p = pwret'.password)
       /\ \A u \in Users :
            /\ FindPassword(u) = {} =>
                \A p \in AllPasswords : check_internal(u, p) = "AuthenticationFailed"
            /\ Cardinality({row \in passwords' : row.user_id = u}) <= 1]_vars

\* C22 witness: check has accepted, for user 2, a password that a set put
\* in the place of the one the user started with.
C22_Witness ==
    /\ pwret.op = "check"
    /\ pwret.user_id = 2
    /\ pwret.password # Credentials[2]
    /\ pwret.result = "Ok"

\* C23: a password check that returns an error returns AuthenticationFailed.
C23_SingleCheckError ==
    (pwret.op = "check" /\ pwret.result \notin {"Ok", "panic"})
        => pwret.result = "AuthenticationFailed"

\* C24: a password check returns an error only out of password_pause, and
\* returns Ok without having paused.
C24_FailurePause ==
    [][\A t \in Tasks : CheckReturns(t) =>
        /\ pwret'.result \in {"AuthenticationFailed", "Database"} =>
                (pwcall[t].pc = "pause" /\ pwret'.paused)
        /\ pwret'.result = "Ok" => (pwcall[t].pc = "check" /\ ~pwret'.paused)]_vars

\* C24 witness: checks have returned an error after the pause, one for a
\* password that was too long.
C24_Witness ==
    /\ pwret.op = "check"
    /\ pwret.password = "long"
    /\ pwret.result = "AuthenticationFailed"
    /\ pwret.paused

\* C25: a password check never ends in a panic: with a row whose log_n, r
\* or p is out of range it returns AuthenticationFailed.
C25_BadParamsFailCleanly ==
    pwret.op = "check" => pwret.result # "panic"

\* C26: create_session never returns a token for a user whose deleted_at
\* is set.
C26_DeletedUserCannotLogin ==
    [][(ret' # ret /\ ret'.op = "create_session" /\ ~is_active(ret'.user_id))
        => ret'.result \notin Tokens]_vars

\* C27: the in-memory map holds exactly the rows of the wikis table, with
\* the same name, slug and domain; once create has returned Ok, get_by_id
\* of the new id and get_by_slug of its slug yield the wiki.
C27_CatalogCoherent ==
    /\ DOMAIN wikimap = DOMAIN wikis
    /\ \A i \in DOMAIN wikis : get_by_id(i) = {wikis[i]}
    /\ (wret.op = "create" /\ wret.result = "Ok") =>
            /\ get_by_id(wret.id) # {}
            /\ get_by_slug(wret.slug) # {}

\* C28: no catalog operation changes the slug of a row of the wikis table,
\* and no row is removed.
C28_WikiSlugImmutable ==
    [][\A i \in DOMAIN wikis :
        /\ i \in DOMAIN wikis'
        /\ wikis'[i].slug = wikis[i].slug]_vars

\* A restore request that names a page of another wiki than its wiki_id.
ForeignRestore(r) ==
    /\ r.op = "restore"
    /\ r.page_id \in DOMAIN pages
    /\ pages[r.page_id].wiki_id # r.wiki_id

\* C29: a restore that names a page of another wiki never gets as far as a
\* store commit or a revision, and never returns Ok.
C29_RestoreChecksWiki ==
    /\ ~ForeignRestore(last)
    /\ \A t \in Tasks : task[t].pc = "insert" => ~ForeignRestore(task[t])

\* C30: restore of a slug in a wiki fails with PageExists only when that
\* wiki has a live page with the slug.
C30_RestoreSeesOwnWiki ==
    \A w \in Wikis, s \in Slugs :
        RestoreCheck(w, s, NoPage) = "PageExists" => get_page(w, s) # {}

C32_TagsOnlyThatPage ==
    [][(Len(revisions') > Len(revisions) /\ last'.op = "tags")
        => \A p \in DOMAIN pages \ {last'.pid} : pages'[p].tags = pages[p].tags]_vars

\* The tags of page p according to the tag history: the rows of the page's
\* revisions up to revision n, applied in revision_id order to the empty
\* set (added_tags are added, removed_tags dropped).
RECURSIVE ReplayTags(_, _)
ReplayTags(p, n) ==
    IF n = 0 THEN {}
    ELSE IF n \in DOMAIN tag_history /\ revisions[n].page_id = p
        THEN (ReplayTags(p, n - 1) \cup Range(tag_history[n].added_tags))
                \ Range(tag_history[n].removed_tags)
        ELSE ReplayTags(p, n - 1)

\* C33: for every page, replaying its tag_history rows in revision_id order
\* from the empty set yields the page's current tags.
C33_ReplayYieldsTags ==
    AllIdle => \A p \in DOMAIN pages :
                    ReplayTags(p, Len(revisions)) = Range(pages[p].tags)

\* The ChangeType the specification gives each operation.
StatedChangeType ==
    [create |-> "Create", commit |-> "Modify", rename |-> "Rename",
     remove |-> "Delete", restore |-> "Restore", tags |-> "Tags"]

\* C34: every page operation that returns Ok appends exactly one revision,
\* of the page it addressed and with the change_type of the operation; no
\* other step appends a revision, and no step removes a revision or changes
\* the page_id, user_id, git_commit or change_type of an existing one.
C34_OneRevisionPerOperation ==
    [][/\ Len(revisions') \in {Len(revisions), Len(revisions) + 1}
       /\ \A j \in 1..Len(revisions) :
            /\ revisions'[j].page_id = revisions[j].page_id
            /\ revisions'[j].user_id = revisions[j].user_id
            /\ revisions'[j].git_commit = revisions[j].git_commit
            /\ revisions'[j].change_type = revisions[j].change_type
       /\ (\E t \in Tasks : Finish(t)) <=> Len(revisions') = Len(revisions) + 1
       /\ \A t \in Tasks : Finish(t) =>
            LET row == revisions'[Len(revisions')]
                r == task[t]
            IN  /\ row.change_type = StatedChangeType[r.op]
                /\ row.page_id = r.pid
                /\ row.page_id \in DOMAIN pages'
                /\ pages'[row.page_id].wiki_id = r.swiki
                /\ pages'[row.page_id].slug =
                        IF r.op = "rename" THEN r.new_slug ELSE r.slug]_vars

\* C34 witness: three operations of two kinds on two pages have returned
\* Ok and a revision message has been edited since.
C34_Witness ==
    /\ Len(revisions) >= 3
    /\ Cardinality({revisions[i].change_type : i \in 1..Len(revisions)}) >= 2
    /\ Cardinality({revisions[i].page_id : i \in 1..Len(revisions)}) >= 2
    /\ \E i \in 1..Len(revisions) : revisions[i].message # FirstMessage

\* C36: a token that create_session returned stays valid until end_session
\* is called for the user, also with concurrent create_session calls: a
\* stored token (every stored token was returned to the caller that created
\* it) is removed or replaced by no step other than end_session of the user.
C36_TokenValidUntilEndSession ==
    [][\A u \in DOMAIN sessions, token \in Tokens :
        (token = sessions[u].token /\ (check_token(u, token))' # "Ok")
            => ret'.op = "end_session" /\ ret'.user_id = u]_vars

\* C35: for every live page get_page_contents_by_id(page_id) returns what
\* get_page_contents(wiki_id, slug) of the page returns; for a deleted page
\* it returns none.
C35_ContentsByIdAgree ==
    AllIdle => \A p \in DOMAIN pages :
        get_page_contents_by_id(p) =
            IF pages[p].deleted THEN NoContent
            ELSE get_page_contents(pages[p].wiki_id, pages[p].slug)

\* C38: a store operation called with a slug that is not in wikidot-normal
\* form fails with SlugNotNormal and leaves the working directory and the
\* history as they were.
C38_SlugNotNormal ==
    [][(sret'.op # "none" /\ ~is_normal(sret'.slug))
        => (sret'.result = "SlugNotNormal" /\ stores' = stores)]_vars

\* A create_wiki call is between inserting wiki w into the catalog and
\* its return.
Creating(w) ==
    \E u \in LockTasks :
        proc[u].op = "create_wiki" /\ proc[u].wiki_id = w /\ proc[u].pc \in {"cs", "map_wait"}

\* C37: every wiki in the catalog has a store registered in the page
\* service once its create_wiki has returned, with Ok or with an error: no
\* page operation on such a wiki fails with WikiNotFound.
C37_CataloguedWikiHasStore ==
    [][\A t \in LockTasks :
        (/\ proc[t].pc = "map_wait"
         /\ proc'[t].pc = "failed"
         /\ proc'[t].result = "WikiNotFound")
            => (proc[t].wiki_id \notin DOMAIN wikimap \/ Creating(proc[t].wiki_id))]_vars

\* Task t is inside the critical section of a store operation on wiki w.
InStore(t, w, mode) ==
    proc[t].pc = "cs" /\ proc[t].wiki_id = w /\ proc[t].mode = mode

\* C39: on each store at most one writer is inside its critical section,
\* and no reader while a writer is; a call that waits for a store waits for
\* calls on the same store only.
C39_StoreLockExcludes ==
    \A w \in LockWikiIds :
        LET writers == {t \in LockTasks : InStore(t, w, "write")}
            readers == {t \in LockTasks : InStore(t, w, "read")}
        IN  /\ Cardinality(writers) <= 1
            /\ writers # {} => readers = {}
            /\ \A t \in LockTasks :
                (/\ proc[t].pc = "store_wait"
                 /\ proc[t].wiki_id = w
                 /\ ~CanEnter(storelock[w], t, proc[t].mode))
                    => \E u \in LockTasks \ {t} :
                            /\ proc[u].wiki_id = w
                            /\ proc[u].pc \in {"store_wait", "cs"}

\* C39 witness: two readers are inside one store together while a writer is
\* inside the store of another wiki.
C39_Witness ==
    \E w \in LockWikiIds, v \in LockWikiIds :
        /\ w # v
        /\ Cardinality({t \in LockTasks : InStore(t, w, "read")}) = 2
        /\ \E t \in LockTasks : InStore(t, v, "write") /\ proc[t].op # "create_wiki"

====
